---- MODULE Spec2Model ----
(***************************************************************************)
(* PerformanceCounters: the process-wide function registry, the per-thread *)
(* accumulators with their flush protocol, the scoped timer, and the       *)
(* Schwarz-counter lifecycle of the shared singleton.                      *)
(*                                                                         *)
(* Names are small integers.  Ids are 0-based as in the code; TLA+         *)
(* sequences are 1-based, so id i lives at index i + 1.                    *)
(***************************************************************************)
EXTENDS Integers, Sequences, FiniteSets, TLC

\* ------------------------------------------------------------------ bounds
NumThreads == 2
NumUnits == 2
NumNames == 2
MaxCalls == 1
MaxDur == 2
MaxNest == 1
MaxRegs == 2

\* CallCount is std::atomic<int>, LocalCounters::Calls is int.
INT_MAX == 2147483647

MaxPending == 2

MaxDepth == 2
MaxTimers == 2

Threads == 1..NumThreads
Units == 1..NumUnits
NameSet == 1..NumNames
Regs == 1..MaxRegs
\* The elapsed nanoseconds a timer may measure.
Durations == {MaxDur}
\* The thread that drives CollectAll / ResetAllCounters / the initializers.
Main == 0
Flushers == Threads \cup {Main}

VARIABLES
    linkage,                            \* how the units were linked (build outcome)
    initAlive,                          \* unit -> its PerformanceCountersInitializer is constructed
    PerformanceCountersInitializeCount, \* copy of the library -> Schwarz counter
    PerformanceCountersInstance,        \* 0 = nullptr, else the live instance
    Registry,                           \* PerformanceCounters::Registry, 0 = nullptr
    reg,                                \* the FunctionRegistry objects ever allocated
    crashed,                            \* the process died on an invalid access
    siteId,                             \* call site (unit, name) -> static _pc_timer_id_, -1 = not yet initialised
    TlsAccum,                           \* thread -> its thread_local ThreadAccumulator
    pc,                                 \* thread -> control state
    at,                                 \* thread -> the call site whose macro it is executing
    timers,                             \* thread -> stack of live ScopedTimerHelper objects
    flush,                              \* flusher -> the Flush() call in progress
    mpc,                                \* control state of the main thread
    ck,                                 \* CollectAll: position in the accumulator list
    rs,                                 \* ResetAllCounters: registry, count read, position
    calls,                              \* history: thread -> timers completed by the thread
    unitMade,                           \* history: unit -> name -> timers completed in the unit
    regOrder,                           \* history: distinct names in order of first registration
    collectQuiesced,                    \* history: the last CollectAll started after all timed work
    resetClean,                         \* history: no Flush overlapped the reset in progress
    out,                                \* the value the last query returned to its caller
    buffer                              \* the caller's buffer handed to GetResults

lifeVars == <<linkage, initAlive, PerformanceCountersInitializeCount,
              PerformanceCountersInstance, crashed>>
vars == <<linkage, initAlive, PerformanceCountersInitializeCount,
          PerformanceCountersInstance, Registry, reg, crashed, siteId, TlsAccum,
          pc, at, timers, flush, mpc, ck, rs, calls, unitMade, regOrder, collectQuiesced, resetClean,
          out, buffer>>
\* What belongs to the caller of the query functions.
callerVars == <<out, buffer>>

\* ------------------------------------------------------- integer arithmetic
\* fetch_add on std::atomic<int>: two's complement wrap-around.  The sum is
\* formed without leaving the 32-bit range.
AddInt32(a, b) ==
    IF b > 0 /\ a > INT_MAX - b
    THEN ((a - INT_MAX) - 1) + ((b - INT_MAX) - 1)
    ELSE a + b

\* ------------------------------------------------------------ the registry
\* FunctionCounters{}: both atomics start at 0.
NewFunctionCounters == [TotalNanoseconds |-> 0, CallCount |-> 0]

\* LocalCounters{}: Elapsed = 0, Calls = 0.
NewLocalCounters == [Elapsed |-> 0, Calls |-> 0]

\* FunctionRegistry::FunctionRegistry(): pImpl(new Impl), every member default.
NewFunctionRegistry ==
    [state |-> "live",
     NameToId |-> [n \in NameSet |-> -1],
     Names |-> <<>>,
     Counters |-> <<>>,
     Count |-> 0,
     Mutex |-> -1,
     AccumulatorMutex |-> -1,
     Accumulators |-> <<>>,
     Destroyed |-> FALSE]

\* Memory not yet allocated.
UnbornRegistry == [NewFunctionRegistry EXCEPT !.state = "unborn"]

\* Faulty variant of FindFunction: 0 for a name that is not in NameToId.
FindFunctionOrZero(R, name) ==
    IF R.NameToId[name] # -1 THEN R.NameToId[name] ELSE 0

\* FunctionRegistry::FindFunction: the id of name, -1 if it is not in NameToId.
FindFunction(R, name) ==
    IF R.NameToId[name] # -1 THEN R.NameToId[name] ELSE -1

\* Faulty variant of RegisterFunction: the lookup in NameToId is skipped and a
\* new id is handed out on every call.
RegisterFunctionIdAlwaysNew(R, name) == Len(R.Names)

\* Faulty variant of RegisterFunction: new ids are counted from 1.
RegisterFunctionIdOneBased(R, name) ==
    IF R.NameToId[name] # -1 THEN R.NameToId[name] ELSE Len(R.Names) + 1

\* FunctionRegistry::RegisterFunction, the value returned.
RegisterFunctionId(R, name) ==
    IF R.NameToId[name] # -1 THEN R.NameToId[name] ELSE Len(R.Names)

\* Faulty variant of RegisterFunction: the new name is put at the front of
\* the name table.
RegisterFunctionAtFront(R, name) ==
    IF R.NameToId[name] # -1
    THEN R
    ELSE LET id == Len(R.Names) IN
         [R EXCEPT !.Names = <<name>> \o @,
                   !.NameToId[name] = id,
                   !.Counters = Append(@, NewFunctionCounters),
                   !.Count = id + 1]

\* FunctionRegistry::RegisterFunction, the registry afterwards.
RegisterFunction(R, name) ==
    IF R.NameToId[name] # -1
    THEN R
    ELSE LET id == Len(R.Names) IN
         [R EXCEPT !.Names = Append(@, name),
                   !.NameToId[name] = id,
                   !.Counters = Append(@, NewFunctionCounters),
                   !.Count = id + 1]

\* FunctionRegistry::GetFunctionCount: acquire load of Count.
GetFunctionCount(R) == R.Count

\* The next free FunctionRegistry allocation, 0 when the heap bound is used up.
FreshReg ==
    IF \E r \in Regs : reg[r].state = "unborn"
    THEN CHOOSE r \in Regs : reg[r].state = "unborn"
                             /\ \A q \in Regs : reg[q].state = "unborn" => r <= q
    ELSE 0

\* FunctionRegistry::Instance() = GetInstance().GetRegistry(): defined when the
\* instance pointer is set; GetRegistry allocates the registry when it is null.
InstanceOK ==
    /\ ~crashed
    /\ PerformanceCountersInstance # 0
    /\ (Registry # 0 \/ FreshReg # 0)

\* PerformanceCounters::GetRegistry, the registry returned.
GetRegistry == IF Registry # 0 THEN Registry ELSE FreshReg

\* PerformanceCounters::GetRegistry, the heap afterwards.
RegAfterGetRegistry ==
    IF Registry # 0 THEN reg ELSE [reg EXCEPT ![FreshReg] = NewFunctionRegistry]

\* ------------------------------------------------------------ the report
\* Text is a sequence of one-character strings; its length is its byte count.
DigitChars == <<"0", "1", "2", "3", "4", "5", "6", "7", "8", "9">>

\* operator<<(int) for a non-negative value: its decimal digits.
RECURSIVE Digits(_)
Digits(n) ==
    IF n < 10 THEN <<DigitChars[n + 1]>>
    ELSE Digits(n \div 10) \o <<DigitChars[(n % 10) + 1]>>

\* operator<<(int), operator<<(int64_t).
IntText(n) == IF n < 0 THEN <<"-">> \o Digits(0 - n) ELSE Digits(n)

\* The digits of a mantissa without its trailing zeros.
RECURSIVE StripZeros(_)
StripZeros(ds) ==
    IF Len(ds) > 1 /\ ds[Len(ds)] = "0" THEN StripZeros(SubSeq(ds, 1, Len(ds) - 1)) ELSE ds

\* operator<<(double) of totalNs / 1e9 at the default precision of 6: "0" for
\* zero, else scientific notation d[.ddd]e-0X.  Defined for totals below 10^5
\* ns, where the decimal exponent is below -4 and no digit is rounded away.
SecondsText(ns) ==
    CASE ns = 0 -> <<"0">>
      [] ns > 0 /\ ns < 100000 ->
           LET ds == Digits(ns)
               m == StripZeros(ds)
           IN <<m[1]>>
              \o (IF Len(m) > 1 THEN <<".">> \o SubSeq(m, 2, Len(m)) ELSE <<>>)
              \o <<"e", "-", "0", DigitChars[(9 - (Len(ds) - 1)) + 1]>>

\* The text of a registered name: names are F1, F2, ...
NameText(n) == <<"F">> \o Digits(n)

\* "\n=== Function Timing Results ===\n\n"
ReportHeader ==
    <<"\n", "=", "=", "=", " ", "F", "u", "n", "c", "t", "i", "o", "n", " ", "T", "i",
      "m", "i", "n", "g", " ", "R", "e", "s", "u", "l", "t", "s", " ", "=", "=", "=",
      "\n", "\n">>

\* GetResultsAsString(): the lines written for id i.
ReportBlock(R, i) ==
    LET nCalls == R.Counters[i + 1].CallCount
        totalNs == R.Counters[i + 1].TotalNanoseconds
    IN NameText(R.Names[i + 1]) \o <<":", "\n">>
       \o <<" ", " ", "T", "o", "t", "a", "l", " ", "c", "a", "l", "l", "s", ":", " ", " ", " ">> \o IntText(nCalls) \o <<"\n">>
       \o <<" ", " ", "T", "o", "t", "a", "l", " ", "t", "i", "m", "e", ":", " ", " ", " ", " ">> \o SecondsText(totalNs) \o <<" ", "s", "\n">>
       \o (IF nCalls > 0
           THEN <<" ", " ", "A", "v", "g", " ", "p", "e", "r", " ", "c", "a", "l", "l", ":", " ", " ">> \o IntText(totalNs \div nCalls)
                \o <<" ", "n", "s", "\n">>
           ELSE <<>>)
       \o <<"\n">>

\* GetResultsAsString(): the blocks of ids 0 .. k - 1.
RECURSIVE ReportBlocks(_, _)
ReportBlocks(R, k) ==
    IF k = 0 THEN <<>> ELSE ReportBlocks(R, k - 1) \o ReportBlock(R, k - 1)

\* PerformanceCounters::GetResultsAsString on registry R.
ResultsAsString(R) == ReportHeader \o ReportBlocks(R, GetFunctionCount(R))

\* Faulty variant of EnsureCapacity: Counters.resize(size) whatever the size.
EnsureCapacityExact(C, size) == [k \in 1..size |-> IF k <= Len(C) THEN C[k] ELSE NewLocalCounters]

\* --------------------------------------------------------- the accumulator
\* ThreadAccumulator::EnsureCapacity(size): resize only when smaller.
EnsureCapacity(C, size) ==
    IF Len(C) < size
    THEN C \o [k \in 1..(size - Len(C)) |-> NewLocalCounters]
    ELSE C

\* Flush(): the guard of one loop iteration, i < count && i < Counters.size().
FlushInRange(F) == F.i < F.count /\ F.i < Len(TlsAccum[F.acc].Counters)

\* Flush(): if (Counters[i].Elapsed || Counters[i].Calls).
FlushSlotNonEmpty(slot) == slot.Elapsed # 0 \/ slot.Calls # 0

NoSite == [unit |-> 0, name |-> 0, inst |-> 0]
NoFlush == [acc |-> 0, r |-> 0, count |-> 0, i |-> 0, phase |-> "idle"]
NoReset == [r |-> 0, count |-> 0, i |-> 0, half |-> 0]

\* Faulty variant of Flush(): the loop starts at id 1.
BeginFlushFromOne(a, r, R) ==
    [acc |-> a, r |-> r, count |-> GetFunctionCount(R), i |-> 1, phase |-> "check"]

\* A Flush() call that has read the registry and the count, before its loop.
BeginFlush(a, r, R) ==
    [acc |-> a, r |-> r, count |-> GetFunctionCount(R), i |-> 0, phase |-> "check"]

FlushRunning(f) == flush[f].phase \in {"check", "calls", "zero"}

\* Flush() has left its loop and returns.
FlushReturns(f) == flush[f].phase = "check" /\ ~FlushInRange(flush[f])

\* No query has returned yet.
NoResult == [op |-> "none", arg |-> 0, val |-> 0]
\* char* buffer = nullptr.
NullBuffer == [null |-> TRUE, bytes |-> <<>>]

\* history: the timers completed under name n, over all units.
RECURSIVE MadeUpTo(_, _)
MadeUpTo(u, n) == IF u = 0 THEN 0 ELSE unitMade[u][n] + MadeUpTo(u - 1, n)
Made(n) == MadeUpTo(NumUnits, n)
\* Every thread is outside all timed scopes.
AllTimedWorkDone == \A t \in Threads : timers[t] = <<>>

\* ------------------------------------------------------------------ Init
\* After static initialization of every unit and the first use of the registry
\* by the main thread: one instance, one empty registry, no accumulator yet.
InitShared ==
    /\ crashed = FALSE
    /\ siteId = [u \in Units |-> [n \in NameSet |-> -1]]
    /\ TlsAccum = [t \in Threads |-> [state |-> "none", Counters |-> <<>>]]
    /\ pc = [t \in Threads |-> "run"]
    /\ at = [t \in Threads |-> NoSite]
    /\ regOrder = <<>>
    /\ timers = [t \in Threads |-> <<>>]
    /\ flush = [f \in Flushers |-> NoFlush]
    /\ mpc = "idle"
    /\ ck = [r |-> 0, k |-> 0]
    /\ rs = NoReset
    /\ calls = [t \in Threads |-> 0]
    /\ unitMade = [u \in Units |-> [n \in NameSet |-> 0]]
    /\ collectQuiesced = FALSE
    /\ resetClean = TRUE
    /\ out = NoResult
    /\ buffer = NullBuffer

Init ==
    /\ InitShared
    /\ linkage = "shared"
    /\ initAlive = [u \in Units |-> "yes"]
    /\ PerformanceCountersInitializeCount = [c \in Units |-> IF c = 1 THEN NumUnits ELSE 0]
    /\ PerformanceCountersInstance = 1
    /\ Registry = 1
    /\ reg = [r \in Regs |-> IF r = 1 THEN NewFunctionRegistry ELSE UnbornRegistry]

\* ------------------------------------------------- call sites and timers
\* ScopedTimerNamed(name) reached for the first time, in unit u by thread t:
\* static const int _pc_timer_id_ = FunctionRegistry::Instance().RegisterFunction(name).
\* The construction of the ScopedTimerHelper follows in the same thread.
RegisterSite(t, u, n) ==
    /\ pc[t] = "run"
    /\ siteId[u][n] = -1
    /\ Len(timers[t]) < MaxNest
    /\ calls[t] + Len(timers[t]) < MaxCalls
    /\ pc' = [pc EXCEPT ![t] = "ctor"]
    /\ at' = [at EXCEPT ![t] = [unit |-> u, name |-> n, inst |-> 0]]
    /\ initAlive[u] = "yes"
    /\ InstanceOK
    /\ Registry # 0
    /\ LET r == GetRegistry
           R == RegAfterGetRegistry[r]
       IN /\ reg' = [RegAfterGetRegistry EXCEPT ![r] = RegisterFunction(R, n)]
          /\ siteId' = [siteId EXCEPT ![u][n] = RegisterFunctionId(R, n)]
          /\ Registry' = r
    /\ regOrder' = IF \E k \in 1..Len(regOrder) : regOrder[k] = n
                   THEN regOrder ELSE Append(regOrder, n)
    /\ UNCHANGED <<lifeVars, callerVars, TlsAccum, timers, flush, mpc, ck, rs, calls, unitMade,
                   collectQuiesced, resetClean>>

\* Faulty variant of ThreadAccumulator(): the accumulator is not pushed.
AccumulatorCtorNoPush(R, t) == R

\* ThreadAccumulator::ThreadAccumulator(): push_back(this) under AccumulatorMutex.
AccumulatorCtor(R, t) == [R EXCEPT !.Accumulators = Append(@, t)]

\* ScopedTimerHelper::ScopedTimerHelper(id): the first touch of TlsAccum in a
\* thread constructs it; then EnsureCapacity(id + 1).
ScopedTimerCtor(t, u, n) ==
    LET id == siteId[u][n] IN
    /\ ~crashed
    /\ id # -1
    /\ \/ pc[t] = "ctor" /\ at[t] = [unit |-> u, name |-> n, inst |-> 0]
       \/ /\ pc[t] = "run"
          /\ initAlive[u] = "yes"
          /\ Len(timers[t]) < MaxNest
          /\ calls[t] + Len(timers[t]) < MaxCalls
    /\ pc' = [pc EXCEPT ![t] = "run"]
    /\ at' = [at EXCEPT ![t] = NoSite]
    /\ IF TlsAccum[t].state = "none"
       THEN /\ InstanceOK
            /\ LET r == GetRegistry
                   R == RegAfterGetRegistry[r]
               IN /\ R.AccumulatorMutex = -1
                  /\ reg' = [RegAfterGetRegistry EXCEPT ![r] = AccumulatorCtor(R, t)]
                  /\ Registry' = r
       ELSE UNCHANGED <<reg, Registry>>
    /\ TlsAccum' = [TlsAccum EXCEPT ![t] =
                      [state |-> "live", Counters |-> EnsureCapacity(@.Counters, id + 1)]]
    /\ timers' = [timers EXCEPT ![t] = Append(@, [Id |-> id, unit |-> u, name |-> n])]
    /\ collectQuiesced' = FALSE
    /\ UNCHANGED <<lifeVars, callerVars, siteId, flush, mpc, ck, rs, calls, unitMade, regOrder, resetClean>>

\* Faulty variant of ~ScopedTimerHelper: the delta goes to slot 0 whatever the id.
RecordLocalFirstSlot(C, id, d) ==
    [C EXCEPT ![1] = [Elapsed |-> @.Elapsed + d, Calls |-> @.Calls + 1]]

\* ~ScopedTimerHelper: local.Elapsed += elapsed; local.Calls++.
RecordLocal(C, id, d) ==
    [C EXCEPT ![id + 1] = [Elapsed |-> @.Elapsed + d, Calls |-> @.Calls + 1]]

\* ScopedTimerHelper::~ScopedTimerHelper() of the innermost live timer of t.
ScopedTimerDtor(t, d) ==
    /\ pc[t] = "run"
    /\ ~crashed
    /\ timers[t] # <<>>
    /\ LET top == timers[t][Len(timers[t])] IN
       /\ TlsAccum' = [TlsAccum EXCEPT ![t].Counters = RecordLocal(@, top.Id, d)]
       /\ calls' = [calls EXCEPT ![t] = @ + 1]
       /\ unitMade' = [unitMade EXCEPT ![top.unit][top.name] = @ + 1]
    /\ timers' = [timers EXCEPT ![t] = SubSeq(@, 1, Len(@) - 1)]
    /\ UNCHANGED <<lifeVars, callerVars, Registry, reg, siteId, pc, at, flush, mpc, ck, rs, regOrder,
                   collectQuiesced, resetClean>>

\* ------------------------------------------------------------------ Flush
\* Faulty variant of Flush(): fetch_sub in place of fetch_add on the time.
FlushSubNanoseconds(R, i, slot) ==
    [R EXCEPT !.Counters[i + 1].TotalNanoseconds = @ - slot.Elapsed]

\* Faulty variant of Flush(): store in place of fetch_add on the call count.
FlushStoreCalls(R, i, slot) ==
    [R EXCEPT !.Counters[i + 1].CallCount = slot.Calls]

\* Flush(): TotalNanoseconds.fetch_add(Counters[i].Elapsed).
FlushAddNanoseconds(R, i, slot) ==
    [R EXCEPT !.Counters[i + 1].TotalNanoseconds = @ + slot.Elapsed]

\* Flush(): CallCount.fetch_add(Counters[i].Calls).
FlushAddCalls(R, i, slot) ==
    [R EXCEPT !.Counters[i + 1].CallCount = AddInt32(@, slot.Calls)]

\* Faulty variant of Flush(): only Calls is zeroed, Elapsed stays.
FlushZeroCallsOnly(C, i) == [C EXCEPT ![i + 1].Calls = 0]

\* Flush(): Counters[i].Elapsed = 0; Counters[i].Calls = 0.
FlushZeroSlot(C, i) == [C EXCEPT ![i + 1] = NewLocalCounters]

\* One step of a running Flush(): the loop test and the first fetch_add, the
\* second fetch_add, or the zeroing of the local slot.
FlushStep(f) ==
    LET F == flush[f]
        A == TlsAccum[F.acc]
    IN
    /\ ~crashed
    /\ FlushRunning(f)
    /\ reg[F.r].state # "unborn"
    /\ A.state = "live"
    /\ CASE F.phase = "check" ->
              /\ FlushInRange(F)
              /\ IF FlushSlotNonEmpty(A.Counters[F.i + 1])
                 THEN /\ reg' = [reg EXCEPT ![F.r] =
                                   FlushAddNanoseconds(@, F.i, A.Counters[F.i + 1])]
                      /\ flush' = [flush EXCEPT ![f].phase = "calls"]
                      /\ UNCHANGED TlsAccum
                 ELSE /\ flush' = [flush EXCEPT ![f].i = @ + 1]
                      /\ UNCHANGED <<reg, TlsAccum>>
         [] F.phase = "calls" ->
              /\ reg' = [reg EXCEPT ![F.r] = FlushAddCalls(@, F.i, A.Counters[F.i + 1])]
              /\ flush' = [flush EXCEPT ![f].phase = "zero"]
              /\ UNCHANGED TlsAccum
         [] F.phase = "zero" ->
              /\ TlsAccum' = [TlsAccum EXCEPT ![F.acc].Counters = FlushZeroSlot(@, F.i)]
              /\ flush' = [flush EXCEPT ![f].i = @ + 1, ![f].phase = "check"]
              /\ UNCHANGED reg
    /\ resetClean' = IF mpc = "reset" THEN FALSE ELSE resetClean
    /\ UNCHANGED <<lifeVars, callerVars, Registry, siteId, pc, at, timers, mpc, ck, rs, calls, unitMade, regOrder,
                   collectQuiesced>>

\* -------------------------------------------------------------- thread exit
\* A thread leaves its thread function.  With a constructed TlsAccum the
\* destructor starts with this->Flush(), before any lock is taken.
ThreadExit(t) ==
    /\ pc[t] = "run"
    /\ ~crashed
    /\ timers[t] = <<>>
    /\ IF TlsAccum[t].state = "none"
       THEN /\ pc' = [pc EXCEPT ![t] = "exited"]
            /\ UNCHANGED <<Registry, reg, flush, resetClean>>
       ELSE /\ InstanceOK
            /\ LET r == GetRegistry IN
               /\ reg' = RegAfterGetRegistry
               /\ Registry' = r
               /\ flush' = [flush EXCEPT ![t] = BeginFlush(t, r, RegAfterGetRegistry[r])]
            /\ pc' = [pc EXCEPT ![t] = "dtor_flush"]
            /\ resetClean' = IF mpc = "reset" THEN FALSE ELSE resetClean
    /\ UNCHANGED <<lifeVars, callerVars, siteId, TlsAccum, at, timers, mpc, ck, rs, calls, unitMade, regOrder,
                   collectQuiesced>>

\* ~ThreadAccumulator after Flush(): reg = Instance(); the Destroyed test.
DtorCheck(t) ==
    /\ pc[t] = "dtor_flush"
    /\ FlushReturns(t)
    /\ InstanceOK
    /\ LET r == GetRegistry IN
       /\ reg' = RegAfterGetRegistry
       /\ Registry' = r
       /\ IF RegAfterGetRegistry[r].Destroyed
          THEN /\ pc' = [pc EXCEPT ![t] = "exited"]
               /\ flush' = [flush EXCEPT ![t] = NoFlush]
               /\ TlsAccum' = [TlsAccum EXCEPT ![t] = [state |-> "gone", Counters |-> <<>>]]
          ELSE /\ pc' = [pc EXCEPT ![t] = "dtor_erase"]
               /\ flush' = [flush EXCEPT ![t] = [NoFlush EXCEPT !.r = r, !.phase = "erase"]]
               /\ UNCHANGED TlsAccum
    /\ UNCHANGED <<lifeVars, callerVars, siteId, at, timers, mpc, ck, rs, calls, unitMade, regOrder,
                   collectQuiesced, resetClean>>

\* Faulty variant of ~ThreadAccumulator: nothing is erased from the list.
EraseNothing(R, t) == R

\* v.erase(std::remove(v.begin(), v.end(), this), v.end()).
EraseAccumulator(R, t) ==
    [R EXCEPT !.Accumulators = SelectSeq(@, LAMBDA a : a # t)]

\* ~ThreadAccumulator: lock AccumulatorMutex, erase this, unlock; the members
\* are destroyed afterwards.
DtorErase(t) ==
    /\ pc[t] = "dtor_erase"
    /\ ~crashed
    /\ reg[flush[t].r].state # "unborn"
    /\ reg[flush[t].r].AccumulatorMutex = -1
    /\ reg' = [reg EXCEPT ![flush[t].r] = EraseAccumulator(@, t)]
    /\ pc' = [pc EXCEPT ![t] = "exited"]
    /\ flush' = [flush EXCEPT ![t] = NoFlush]
    /\ TlsAccum' = [TlsAccum EXCEPT ![t] = [state |-> "gone", Counters |-> <<>>]]
    /\ UNCHANGED <<lifeVars, callerVars, Registry, siteId, at, timers, mpc, ck, rs, calls, unitMade, regOrder,
                   collectQuiesced, resetClean>>

\* ------------------------------------------------------------- CollectAll
\* CollectAll(): reg = Instance(); lock_guard on AccumulatorMutex.
CollectAllBegin ==
    /\ mpc = "idle"
    /\ InstanceOK
    /\ LET r == GetRegistry IN
       /\ RegAfterGetRegistry[r].AccumulatorMutex = -1
       /\ reg' = [RegAfterGetRegistry EXCEPT ![r].AccumulatorMutex = Main]
       /\ Registry' = r
       /\ ck' = [r |-> r, k |-> 1]
    /\ mpc' = "collect"
    /\ collectQuiesced' = AllTimedWorkDone
    /\ UNCHANGED <<lifeVars, callerVars, siteId, TlsAccum, pc, at, timers, flush, calls, unitMade, rs, regOrder, resetClean>>

\* CollectAll(): acc->Flush() for the next accumulator of the list.
CollectFlush ==
    /\ mpc = "collect"
    /\ flush[Main].phase = "idle" \/ FlushReturns(Main)
    /\ reg[ck.r].state = "live"
    /\ ck.k <= Len(reg[ck.r].Accumulators)
    /\ InstanceOK
    /\ LET r == GetRegistry IN
       /\ reg' = RegAfterGetRegistry
       /\ Registry' = r
       /\ flush' = [flush EXCEPT ![Main] =
                      BeginFlush(reg[ck.r].Accumulators[ck.k], r, RegAfterGetRegistry[r])]
    /\ ck' = [ck EXCEPT !.k = @ + 1]
    /\ UNCHANGED <<lifeVars, callerVars, siteId, TlsAccum, pc, at, timers, mpc, calls, unitMade, rs, regOrder,
                   collectQuiesced, resetClean>>

\* CollectAll() returns: the lock_guard releases AccumulatorMutex.
CollectAllEnd ==
    /\ mpc = "collect"
    /\ ~crashed
    /\ flush[Main].phase = "idle" \/ FlushReturns(Main)
    /\ reg[ck.r].state = "live"
    /\ ck.k > Len(reg[ck.r].Accumulators)
    /\ reg' = [reg EXCEPT ![ck.r].AccumulatorMutex = -1]
    /\ flush' = [flush EXCEPT ![Main] = NoFlush]
    /\ ck' = [r |-> 0, k |-> 0]
    /\ mpc' = "idle"
    /\ UNCHANGED <<lifeVars, callerVars, Registry, siteId, TlsAccum, pc, at, timers, calls, unitMade, rs, regOrder,
                   collectQuiesced, resetClean>>

\* ------------------------------------------------------- ResetAllCounters
\* ResetAllCounters(): reg = Instance(); count = reg.GetFunctionCount().
ResetBegin ==
    /\ mpc = "idle"
    /\ InstanceOK
    /\ LET r == GetRegistry IN
       /\ reg' = RegAfterGetRegistry
       /\ Registry' = r
       /\ rs' = [r |-> r, count |-> GetFunctionCount(RegAfterGetRegistry[r]),
                 i |-> 0, half |-> 0]
    /\ mpc' = "reset"
    /\ resetClean' = \A f \in Flushers : ~FlushRunning(f)
    /\ collectQuiesced' = FALSE
    /\ UNCHANGED <<lifeVars, callerVars, siteId, TlsAccum, pc, at, timers, flush, ck, calls, unitMade, regOrder>>

\* Faulty variant of ResetAllCounters(): only the time is cleared.
ResetStoreTimeOnly(R, i, half) ==
    [R EXCEPT !.Counters[i + 1].TotalNanoseconds = 0]

\* Faulty variant of ResetAllCounters(): the published count is cleared too.
ResetStoreDroppingCount(R, i, half) ==
    IF half = 0
    THEN [R EXCEPT !.Counters[i + 1].TotalNanoseconds = 0]
    ELSE [R EXCEPT !.Counters[i + 1].CallCount = 0, !.Count = 0]

\* ResetAllCounters(): TotalNanoseconds.store(0), then CallCount.store(0), of id i.
ResetStore(R, i, half) ==
    IF half = 0
    THEN [R EXCEPT !.Counters[i + 1].TotalNanoseconds = 0]
    ELSE [R EXCEPT !.Counters[i + 1].CallCount = 0]

\* Faulty variant of ResetAllCounters(): every thread's pending deltas are
\* discarded as well.
ResetStepDiscarding ==
    /\ mpc = "reset"
    /\ ~crashed
    /\ rs.i < rs.count
    /\ reg[rs.r].state = "live"
    /\ reg' = [reg EXCEPT ![rs.r] = ResetStore(@, rs.i, rs.half)]
    /\ rs' = IF rs.half = 0 THEN [rs EXCEPT !.half = 1]
             ELSE [rs EXCEPT !.half = 0, !.i = @ + 1]
    /\ TlsAccum' = [a \in Threads |->
                      [TlsAccum[a] EXCEPT !.Counters =
                          [k \in 1..Len(@) |-> NewLocalCounters]]]
    /\ UNCHANGED <<lifeVars, callerVars, Registry, siteId, pc, at, timers, flush, mpc, ck, calls, unitMade,
                   regOrder, collectQuiesced, resetClean>>

ResetStep ==
    /\ mpc = "reset"
    /\ ~crashed
    /\ rs.i < rs.count
    /\ reg[rs.r].state = "live"
    /\ reg' = [reg EXCEPT ![rs.r] = ResetStore(@, rs.i, rs.half)]
    /\ rs' = IF rs.half = 0 THEN [rs EXCEPT !.half = 1]
             ELSE [rs EXCEPT !.half = 0, !.i = @ + 1]
    /\ UNCHANGED <<lifeVars, callerVars, Registry, siteId, TlsAccum, pc, at, timers, flush, mpc, ck, calls, unitMade,
                   regOrder, collectQuiesced, resetClean>>

\* ResetAllCounters() returns.
ResetEnd ==
    /\ mpc = "reset"
    /\ ~crashed
    /\ rs.i >= rs.count
    /\ mpc' = "idle"
    /\ rs' = NoReset
    /\ resetClean' = TRUE
    /\ UNCHANGED <<lifeVars, callerVars, Registry, reg, siteId, TlsAccum, pc, at, timers, flush, ck, calls, unitMade,
                   regOrder, collectQuiesced>>

\* ------------------------------------------------------------------- Spec
Next ==
    \/ \E t \in Threads, u \in Units, n \in NameSet : RegisterSite(t, u, n)
    \/ \E t \in Threads, u \in Units, n \in NameSet : ScopedTimerCtor(t, u, n)
    \/ \E t \in Threads, d \in Durations : ScopedTimerDtor(t, d)
    \/ \E f \in Flushers : FlushStep(f)
    \/ \E t \in Threads : ThreadExit(t)
    \/ \E t \in Threads : DtorCheck(t)
    \/ \E t \in Threads : DtorErase(t)
    \/ CollectAllBegin
    \/ CollectFlush
    \/ CollectAllEnd

\* The steady state: registration, timing, thread exit and CollectAll.
Spec == Init /\ [][Next]_vars

NextReset ==
    \/ Next
    \/ ResetBegin
    \/ ResetStep
    \/ ResetEnd

\* The steady state with ResetAllCounters.
SpecReset == Init /\ [][NextReset]_vars

\* -------------------------------------------------------------- lifecycle
\* The copy of PerformanceCountersInitializeCount the initializer of unit u
\* counts in: one for all units when the symbol is shared, one per module when
\* every module carries its own copy of the library.
CounterOf(u) == IF linkage = "shared" THEN 1 ELSE u

\* PerformanceCounters::ClassInitialize: if (!Instance) Instance = new PerformanceCounters.
ClassInitialize(inst) == IF inst = 0 THEN 1 ELSE inst

\* PerformanceCountersInitialize::PerformanceCountersInitialize(), run by the
\* loader for unit u: if (++Count == 1) ClassInitialize().
InitializerCtor(u) ==
    /\ ~crashed
    /\ mpc = "idle"
    /\ initAlive[u] = "no"
    /\ initAlive' = [initAlive EXCEPT ![u] = "yes"]
    /\ PerformanceCountersInitializeCount' =
           [PerformanceCountersInitializeCount EXCEPT ![CounterOf(u)] = @ + 1]
    /\ IF PerformanceCountersInitializeCount[CounterOf(u)] + 1 = 1
       THEN PerformanceCountersInstance' = ClassInitialize(PerformanceCountersInstance)
       ELSE UNCHANGED PerformanceCountersInstance
    /\ UNCHANGED <<callerVars, linkage, crashed, Registry, reg, siteId, TlsAccum, pc, at, timers, flush,
                   mpc, ck, rs, calls, unitMade, regOrder, collectQuiesced, resetClean>>

\* PerformanceCountersInitialize::~PerformanceCountersInitialize() for unit u:
\* if (--Count == 0) ClassFinalize().  ClassFinalize deletes the instance, whose
\* destructor deletes the registry, whose destructor first stores Destroyed.
InitializerDtor(u) ==
    /\ ~crashed
    /\ mpc = "idle"
    /\ initAlive[u] = "yes"
    /\ initAlive' = [initAlive EXCEPT ![u] = "gone"]
    /\ PerformanceCountersInitializeCount' =
           [PerformanceCountersInitializeCount EXCEPT ![CounterOf(u)] = @ - 1]
    /\ IF PerformanceCountersInitializeCount[CounterOf(u)] - 1 = 0
       THEN IF PerformanceCountersInstance # 0 /\ Registry # 0
            THEN /\ reg' = [reg EXCEPT ![Registry].Destroyed = TRUE]
                 /\ mpc' = "finalize"
                 /\ UNCHANGED <<PerformanceCountersInstance, Registry>>
            ELSE /\ PerformanceCountersInstance' = 0
                 /\ UNCHANGED <<reg, mpc, Registry>>
       ELSE UNCHANGED <<PerformanceCountersInstance, Registry, reg, mpc>>
    /\ UNCHANGED <<callerVars, linkage, crashed, siteId, TlsAccum, pc, at, timers, flush,
                   ck, rs, calls, unitMade, regOrder, collectQuiesced, resetClean>>

\* ClassFinalize, the rest: ~FunctionRegistry deletes pImpl, the registry and
\* the instance are freed, PerformanceCountersInstance = nullptr.
ClassFinalize ==
    /\ ~crashed
    /\ mpc = "finalize"
    /\ reg' = [reg EXCEPT ![Registry].state = "dead"]
    /\ Registry' = 0
    /\ PerformanceCountersInstance' = 0
    /\ mpc' = "idle"
    /\ UNCHANGED <<callerVars, linkage, initAlive, PerformanceCountersInitializeCount, crashed, siteId,
                   TlsAccum, pc, at, timers, flush, ck, rs, calls, unitMade, regOrder,
                   collectQuiesced, resetClean>>

\* GetRegistry() entered by the first RegisterFunction of a call site while no
\* registry exists: the test if (!this->Registry) has been passed.
GetRegistryCheck(t, u, n) ==
    /\ pc[t] = "run"
    /\ ~crashed
    /\ siteId[u][n] = -1
    /\ initAlive[u] = "yes"
    /\ Len(timers[t]) < MaxNest
    /\ calls[t] + Len(timers[t]) < MaxCalls
    /\ PerformanceCountersInstance # 0
    /\ Registry = 0
    /\ pc' = [pc EXCEPT ![t] = "getreg"]
    /\ at' = [at EXCEPT ![t] = [unit |-> u, name |-> n, inst |-> PerformanceCountersInstance]]
    /\ UNCHANGED <<lifeVars, callerVars, Registry, reg, siteId, TlsAccum, timers, flush, mpc, ck, rs,
                   calls, unitMade, regOrder, collectQuiesced, resetClean>>

\* GetRegistry(), the rest: this->Registry = new FunctionRegistry(), whatever the
\* field holds by now; then RegisterFunction on the registry returned.
GetRegistryNew(t) ==
    /\ pc[t] = "getreg"
    /\ ~crashed
    /\ PerformanceCountersInstance # 0
    /\ FreshReg # 0
    /\ siteId[at[t].unit][at[t].name] = -1
    /\ reg' = [reg EXCEPT ![FreshReg] = RegisterFunction(NewFunctionRegistry, at[t].name)]
    /\ siteId' = [siteId EXCEPT ![at[t].unit][at[t].name] =
                    RegisterFunctionId(NewFunctionRegistry, at[t].name)]
    /\ Registry' = FreshReg
    /\ pc' = [pc EXCEPT ![t] = "ctor"]
    /\ at' = [at EXCEPT ![t].inst = 0]
    /\ regOrder' = IF \E k \in 1..Len(regOrder) : regOrder[k] = at[t].name
                   THEN regOrder ELSE Append(regOrder, at[t].name)
    /\ UNCHANGED <<lifeVars, callerVars, TlsAccum, timers, flush, mpc, ck, rs, calls, unitMade,
                   collectQuiesced, resetClean>>

\* Thread t is about to call FunctionRegistry::Instance().
CallsInstance(t) ==
    \/ pc[t] = "run" /\ timers[t] = <<>> /\ TlsAccum[t].state = "live"
    \/ pc[t] = "dtor_flush" /\ FlushReturns(t)
    \/ pc[t] = "getreg"
    \/ pc[t] = "ctor" /\ TlsAccum[t].state = "none"

\* Thread t holds a reference into a registry that has been freed.
UsesFreedRegistry(t) ==
    \/ FlushRunning(t) /\ ~FlushReturns(t) /\ reg[flush[t].r].state = "dead"
    \/ pc[t] = "dtor_erase" /\ reg[flush[t].r].state = "dead"

\* An access through the null instance pointer, or into freed memory: the
\* process may die there.
InvalidAccess(t) ==
    /\ ~crashed
    /\ \/ PerformanceCountersInstance = 0 /\ CallsInstance(t)
       \/ UsesFreedRegistry(t)
    /\ crashed' = TRUE
    /\ UNCHANGED <<callerVars, linkage, initAlive, PerformanceCountersInitializeCount,
                   PerformanceCountersInstance, Registry, reg, siteId, TlsAccum, pc, at,
                   timers, flush, mpc, ck, rs, calls, unitMade, regOrder, collectQuiesced,
                   resetClean>>

\* Before any unit is loaded.
InitLife ==
    /\ InitShared
    /\ linkage \in {"shared", "static"}
    /\ initAlive = [u \in Units |-> "no"]
    /\ PerformanceCountersInitializeCount = [c \in Units |-> 0]
    /\ PerformanceCountersInstance = 0
    /\ Registry = 0
    /\ reg = [r \in Regs |-> UnbornRegistry]

NextLife ==
    \/ \E u \in Units : InitializerCtor(u)
    \/ \E u \in Units : InitializerDtor(u)
    \/ ClassFinalize
    \/ \E t \in Threads, u \in Units, n \in NameSet : GetRegistryCheck(t, u, n)
    \/ \E t \in Threads : GetRegistryNew(t)
    \/ \E t \in Threads, u \in Units, n \in NameSet : RegisterSite(t, u, n)
    \/ \E t \in Threads, u \in Units, n \in NameSet : ScopedTimerCtor(t, u, n)
    \/ \E t \in Threads, d \in Durations : ScopedTimerDtor(t, d)
    \/ \E t \in Threads : FlushStep(t)
    \/ \E t \in Threads : ThreadExit(t)
    \/ \E t \in Threads : DtorCheck(t)
    \/ \E t \in Threads : DtorErase(t)
    \/ \E t \in Threads : InvalidAccess(t)

\* The whole life of the process: units load and unload while threads time.
SpecLife == InitLife /\ [][NextLife]_vars

\* ------------------------------------------------------------ the queries
\* PerformanceCounters::GetFunctionCallCount(id): 0 for an id out of range.
GetFunctionCallCount(id) ==
    LET R == reg[Registry] IN
    IF id < 0 \/ id >= GetFunctionCount(R) THEN 0 ELSE R.Counters[id + 1].CallCount

\* PerformanceCounters::GetFunctionTotalTime(id), in nanoseconds.
GetFunctionTotalTime(id) ==
    LET R == reg[Registry] IN
    IF id < 0 \/ id >= GetFunctionCount(R) THEN 0 ELSE R.Counters[id + 1].TotalNanoseconds

\* PerformanceCounters::GetFunctionId(name).
GetFunctionId(name) == FindFunction(reg[Registry], name)

\* ---------------------------------------------------------------- claims
\* The units whose call site under name n has been initialised.
SitesOf(n) == {u \in Units : siteId[u][n] # -1}

\* The last CollectAll started after all timed work and has returned; nothing
\* was timed since.
Collected == mpc = "idle" /\ collectQuiesced /\ AllTimedWorkDone

\* C1: when each of the NumThreads threads has completed N scoped timers under
\* name n, every thread is exited or idle, and a CollectAll that started after
\* the timed work has returned, the call count reported for n is N * NumThreads,
\* whatever the interleaving of thread exits with that CollectAll.
C1_ExactCount ==
    \A n \in NameSet : \A N \in 1..MaxCalls :
        ( /\ Collected
          /\ \A t \in Threads : pc[t] \in {"run", "exited"} /\ calls[t] = N
          /\ Made(n) = N * NumThreads )
        => GetFunctionCallCount(GetFunctionId(n)) = N * NumThreads

\* C2: units that time under the same name hold the same id of the one
\* registry, and after a CollectAll that follows the timed work (no thread has
\* left) the call count of the name is the sum of the calls made in each unit.
C2_SharedCounter ==
    \A n \in NameSet :
        /\ \A u1, u2 \in SitesOf(n) : siteId[u1][n] = siteId[u2][n]
        /\ ( /\ Collected
             /\ SitesOf(n) # {}
             /\ \A t \in Threads : pc[t] = "run" )
           => GetFunctionCallCount(GetFunctionId(n)) = Made(n)

\* Two units have timed under one name and CollectAll has summed their calls.
C2_Witness ==
    \E n \in NameSet :
        /\ Collected
        /\ \A t \in Threads : pc[t] = "run"
        /\ unitMade[1][n] >= 1 /\ unitMade[2][n] >= 1
        /\ GetFunctionCallCount(GetFunctionId(n)) = unitMade[1][n] + unitMade[2][n]

\* C3: RegisterFunction is idempotent: every call site that registered name n
\* was given the same id, one more call would return that id again, and
\* FindFunction(n) returns it at any later time.
C3_Idempotent ==
    \A n \in NameSet : \A u \in SitesOf(n) :
        /\ \A v \in SitesOf(n) : siteId[v][n] = siteId[u][n]
        /\ RegisterFunctionId(reg[Registry], n) = siteId[u][n]
        /\ RegisterFunction(reg[Registry], n) = reg[Registry]
        /\ FindFunction(reg[Registry], n) = siteId[u][n]

\* One name has been registered from the call sites of every unit.
C3_Witness ==
    \E n \in NameSet :
        /\ \A u \in Units : siteId[u][n] = 0
        /\ FindFunction(reg[Registry], n) = 0
        /\ GetFunctionCount(reg[Registry]) = 1

\* C4: ids are dense and follow registration order: the assigned ids are
\* exactly 0 .. functionCount - 1, the k-th distinct name registered holds id k,
\* and no two names share an id.
C4_DenseIds ==
    LET R == reg[Registry] IN
    /\ {siteId[u][n] : u \in Units, n \in NameSet} \ {-1} = 0..(GetFunctionCount(R) - 1)
    /\ Len(regOrder) = GetFunctionCount(R)
    /\ \A n \in NameSet : \A u \in SitesOf(n) : regOrder[siteId[u][n] + 1] = n
    /\ \A n1, n2 \in NameSet : \A u1 \in SitesOf(n1) : \A u2 \in SitesOf(n2) :
          siteId[u1][n1] = siteId[u2][n2] => n1 = n2

\* Every name is registered, the larger name first.
C4_Witness ==
    /\ Len(regOrder) = NumNames
    /\ regOrder[1] = NumNames
    /\ \E u \in Units : siteId[u][NumNames] = 0
    /\ \E u \in Units : siteId[u][1] = NumNames - 1
    /\ GetFunctionCount(reg[Registry]) = NumNames

\* Every global counter of the registry is zero.
AllCountersZero ==
    \A i \in 0..(GetFunctionCount(reg[Registry]) - 1) :
        GetFunctionCallCount(i) = 0 /\ GetFunctionTotalTime(i) = 0

\* C5: when ResetAllCounters returns and no Flush ran during it, the call
\* count and the total time of every registered id are 0.
C5_ResetClears ==
    [][(mpc = "reset" /\ mpc' = "idle" /\ resetClean) => AllCountersZero']_vars

\* A reset with no overlapping Flush has stored its last zero, after work of
\* both names was flushed into the global counters.
C5_Witness ==
    /\ mpc = "reset" /\ rs.i = rs.count /\ rs.count = NumNames
    /\ resetClean
    /\ \A n \in NameSet : Made(n) >= 1
    /\ \A t \in Threads : \A k \in 1..Len(TlsAccum[t].Counters) :
          TlsAccum[t].Counters[k] = NewLocalCounters
    /\ AllCountersZero

C7_AliveWhileHeld ==
    (\E u \in Units : initAlive[u] = "yes")
        => PerformanceCountersInstance # 0 /\ mpc # "finalize"

\* C8: at most one FunctionRegistry exists, and a thread inside Instance()
\* never creates a second one.
C8_OneRegistry ==
    Cardinality({r \in Regs : reg[r].state = "live"}) <= 1

\* The registry was torn down: its Destroyed flag is set, or it is gone.
TornDown ==
    \/ PerformanceCountersInstance = 0
    \/ Registry # 0 /\ reg[Registry].Destroyed

\* C9: a ThreadAccumulator destroyed after the registry was torn down does not
\* touch the registry: the destructor ends without a flush and without the
\* deregistration.
C9_NoAccessWhenTornDown ==
    [][\A t \in Threads :
          ( /\ pc[t] = "run" /\ TlsAccum[t].state = "live"
            /\ pc'[t] \in {"dtor_flush", "dtor_erase", "exited"}
            /\ TornDown )
          => pc'[t] = "exited" /\ reg' = reg /\ ~crashed']_vars

\* C10: every Flush by CollectAll or by a destructor runs while its caller
\* holds AccumulatorMutex, so no accumulator is flushed by two parties at once.
C10_FlushUnderLock ==
    /\ \A f \in Flushers :
          FlushRunning(f) => reg[flush[f].r].AccumulatorMutex = f
    /\ \A t \in Threads :
          ~(FlushRunning(Main) /\ flush[Main].acc = t /\ FlushRunning(t))

\* Every thread that owns a live accumulator is alive and not leaving.
OwnersAlive == \A t \in Threads : TlsAccum[t].state = "live" => pc[t] \in {"run", "ctor"}

\* Every slot of every live accumulator is zero.
AllLocalsZero ==
    \A t \in Threads : \A k \in 1..Len(TlsAccum[t].Counters) :
        TlsAccum[t].Counters[k] = NewLocalCounters

\* C11: after a CollectAll that ran while the other threads were alive and
\* idle, every slot of every live accumulator is zero and the global counters
\* include every scoped timer completed before the call (exactly those, when
\* no thread has left so far).
C11_CollectPublishes ==
    (Collected /\ OwnersAlive) =>
        /\ AllLocalsZero
        /\ \A n \in NameSet : SitesOf(n) # {} =>
              /\ GetFunctionCallCount(GetFunctionId(n)) >= Made(n)
              /\ GetFunctionTotalTime(GetFunctionId(n)) >= Made(n) * MaxDur
              /\ (\A t \in Threads : pc[t] \in {"run", "ctor"}) =>
                    /\ GetFunctionCallCount(GetFunctionId(n)) = Made(n)
                    /\ GetFunctionTotalTime(GetFunctionId(n)) = Made(n) * MaxDur

\* CollectAll has flushed two idle threads that timed under different names.
C11_Witness ==
    /\ Collected
    /\ \A t \in Threads : TlsAccum[t].state = "live" /\ pc[t] = "run" /\ calls[t] = 1
    /\ AllLocalsZero
    /\ \A n \in NameSet : Made(n) = 1 /\ GetFunctionCallCount(GetFunctionId(n)) = 1

\* ------------------------------------------------------ the query calls
\* PerformanceCounters::GetFunctionName(id): empty for an id out of range.
GetFunctionName(id) ==
    LET R == reg[Registry] IN
    IF id < 0 \/ id >= GetFunctionCount(R) THEN <<>> ELSE NameText(R.Names[id + 1])

\* The double 0.0, and the quotient of two integers as a double.
Zero == [num |-> 0, den |-> 1]
Quotient(a, b) == [num |-> a, den |-> b]

\* PerformanceCounters::GetFunctionAverageTime(id): 0.0 for an id out of range
\* or a call count of 0, else static_cast<double>(totalNs) / calls.
GetFunctionAverageTime(id) ==
    LET R == reg[Registry] IN
    IF id < 0 \/ id >= GetFunctionCount(R) THEN Zero
    ELSE IF R.Counters[id + 1].CallCount = 0 THEN Zero
    ELSE Quotient(R.Counters[id + 1].TotalNanoseconds, R.Counters[id + 1].CallCount)

\* PerformanceCounters::GetResultsAsString().
GetResultsAsString == ResultsAsString(reg[Registry])

\* The ids and sizes a caller may pass.
QueryIds == (0 - 1)..NumNames
\* The terminating zero byte, and a byte the caller left in its buffer.
NUL == "NUL"
Junk == "?"

\* Faulty variant of a query: the counters are cleared once read.
RegAfterQueryClearing ==
    [r \in Regs |-> [RegAfterGetRegistry[r] EXCEPT
                        !.Counters = [k \in DOMAIN @ |-> NewFunctionCounters]]]

\* What every query does to the registry heap: auto& reg = Instance(), loads.
RegAfterQuery == RegAfterGetRegistry

\* A query called by the main thread between its other calls: Instance(), and
\* nothing but the caller's variables may change.
QueryEnters ==
    /\ mpc = "idle"
    /\ InstanceOK
    /\ reg' = RegAfterQuery
    /\ Registry' = GetRegistry
    /\ UNCHANGED <<lifeVars, siteId, TlsAccum, pc, at, timers, flush, mpc, ck, rs, calls,
                   unitMade, regOrder, collectQuiesced, resetClean>>

CallGetFunctionCount ==
    /\ QueryEnters
    /\ out' = [op |-> "GetFunctionCount", arg |-> 0, val |-> GetFunctionCount(reg[Registry])']
    /\ UNCHANGED buffer

CallGetFunctionName(id) ==
    /\ QueryEnters
    /\ out' = [op |-> "GetFunctionName", arg |-> id, val |-> GetFunctionName(id)']
    /\ UNCHANGED buffer

CallGetFunctionId(name) ==
    /\ QueryEnters
    /\ out' = [op |-> "GetFunctionId", arg |-> name, val |-> GetFunctionId(name)']
    /\ UNCHANGED buffer

CallGetFunctionCallCount(id) ==
    /\ QueryEnters
    /\ out' = [op |-> "GetFunctionCallCount", arg |-> id, val |-> GetFunctionCallCount(id)']
    /\ UNCHANGED buffer

\* GetFunctionCallCount(const char* name): GetFunctionCallCount(GetFunctionId(name)).
CallGetFunctionCallCountByName(name) ==
    /\ QueryEnters
    /\ out' = [op |-> "GetFunctionCallCountByName", arg |-> name,
               val |-> GetFunctionCallCount(GetFunctionId(name))']
    /\ UNCHANGED buffer

\* The value is the total in nanoseconds; the code returns it divided by 1e9.
CallGetFunctionTotalTime(id) ==
    /\ QueryEnters
    /\ out' = [op |-> "GetFunctionTotalTime", arg |-> id, val |-> GetFunctionTotalTime(id)']
    /\ UNCHANGED buffer

CallGetFunctionTotalTimeByName(name) ==
    /\ QueryEnters
    /\ out' = [op |-> "GetFunctionTotalTimeByName", arg |-> name,
               val |-> GetFunctionTotalTime(GetFunctionId(name))']
    /\ UNCHANGED buffer

CallGetFunctionAverageTime(id) ==
    /\ QueryEnters
    /\ out' = [op |-> "GetFunctionAverageTime", arg |-> id, val |-> GetFunctionAverageTime(id)']
    /\ UNCHANGED buffer

CallGetFunctionAverageTimeByName(name) ==
    /\ QueryEnters
    /\ out' = [op |-> "GetFunctionAverageTimeByName", arg |-> name,
               val |-> GetFunctionAverageTime(GetFunctionId(name))']
    /\ UNCHANGED buffer

CallGetResultsAsString ==
    /\ QueryEnters
    /\ out' = [op |-> "GetResultsAsString", arg |-> 0, val |-> GetResultsAsString']
    /\ UNCHANGED buffer

\* PrintResults(): std::cout << GetResultsAsString(); the value is what was printed.
CallPrintResults ==
    /\ QueryEnters
    /\ out' = [op |-> "PrintResults", arg |-> 0, val |-> GetResultsAsString']
    /\ UNCHANGED buffer

\* Faulty variant of GetResultsValue: a buffer of exactly the required size is
\* rejected as too small.
GetResultsValueStrict(result, b, bufferSize) ==
    LET requiredSize == Len(result) + 1 IN
    IF ~b \/ bufferSize = 0 THEN requiredSize
    ELSE IF bufferSize <= requiredSize THEN 0 - 1
    ELSE Len(result)

\* GetResults, the value returned for text result, buffer b (FALSE = nullptr)
\* and bufferSize.
GetResultsValue(result, b, bufferSize) ==
    LET requiredSize == Len(result) + 1 IN
    IF ~b \/ bufferSize = 0 THEN requiredSize
    ELSE IF bufferSize < requiredSize THEN 0 - 1
    ELSE Len(result)

\* Faulty variant of GetResultsBytes: a buffer that is too small receives the
\* first bufferSize bytes of the text.
GetResultsBytesTruncating(result, b, bufferSize, bytes) ==
    LET requiredSize == Len(result) + 1 IN
    IF ~b \/ bufferSize = 0 THEN bytes
    ELSE IF bufferSize < requiredSize
         THEN SubSeq(result, 1, bufferSize) \o SubSeq(bytes, bufferSize + 1, Len(bytes))
         ELSE result \o <<NUL>> \o SubSeq(bytes, requiredSize + 1, Len(bytes))

\* GetResults, the bytes of the buffer afterwards: memcpy of size() + 1 bytes
\* when the buffer is large enough.
GetResultsBytes(result, b, bufferSize, bytes) ==
    LET requiredSize == Len(result) + 1 IN
    IF ~b \/ bufferSize = 0 \/ bufferSize < requiredSize THEN bytes
    ELSE result \o <<NUL>> \o SubSeq(bytes, requiredSize + 1, Len(bytes))

\* GetResults, the number of bytes std::memcpy copies into the buffer: the
\* text and its terminator, size() + 1, when the buffer is large enough.
GetResultsCopied(result, b, bufferSize) ==
    LET requiredSize == Len(result) + 1 IN
    IF ~b \/ bufferSize = 0 \/ bufferSize < requiredSize THEN 0
    ELSE Len(result) + 1

\* PerformanceCounters::GetResults(buffer, bufferSize): the caller passes its
\* buffer with its true size or with 0, or nullptr with 0 or another size.
CallGetResults(b, bufferSize) ==
    /\ QueryEnters
    /\ b => ~buffer.null /\ bufferSize \in {0, Len(buffer.bytes)}
    /\ ~b => bufferSize \in {0, 1}
    /\ out' = [op |-> "GetResults", arg |-> [buffer |-> b, bufferSize |-> bufferSize],
               val |-> GetResultsValue(GetResultsAsString', b, bufferSize)]
    /\ buffer' = [buffer EXCEPT
                    !.bytes = GetResultsBytes(GetResultsAsString', b, bufferSize, @)]

\* The caller allocates a buffer around the size GetResults last returned.
AllocBuffer(d) ==
    /\ mpc = "idle"
    /\ out.op = "GetResults"
    /\ out.val >= 1
    /\ buffer' = [null |-> FALSE, bytes |-> [k \in 1..(out.val + d) |-> Junk]]
    /\ UNCHANGED <<lifeVars, Registry, reg, siteId, TlsAccum, pc, at, timers, flush, mpc,
                   ck, rs, calls, unitMade, regOrder, collectQuiesced, resetClean, out>>

\* After static initialization, before the first use of the registry.
InitQuery ==
    /\ InitShared
    /\ linkage = "shared"
    /\ initAlive = [u \in Units |-> "yes"]
    /\ PerformanceCountersInitializeCount = [c \in Units |-> IF c = 1 THEN NumUnits ELSE 0]
    /\ PerformanceCountersInstance = 1
    /\ Registry = 0
    /\ reg = [r \in Regs |-> UnbornRegistry]

\* The threads that time while the main thread queries.
QueryThreads == {1}

NextQuery ==
    \/ \E t \in QueryThreads, u \in Units, n \in NameSet : RegisterSite(t, u, n)
    \/ \E t \in QueryThreads, u \in Units, n \in NameSet : ScopedTimerCtor(t, u, n)
    \/ \E t \in QueryThreads, d \in Durations : ScopedTimerDtor(t, d)
    \/ FlushStep(Main)
    \/ CollectAllBegin
    \/ CollectFlush
    \/ CollectAllEnd
    \/ CallGetFunctionCount
    \/ \E id \in QueryIds : CallGetFunctionName(id)
    \/ \E name \in NameSet : CallGetFunctionId(name)
    \/ \E id \in QueryIds : CallGetFunctionCallCount(id)
    \/ \E name \in NameSet : CallGetFunctionCallCountByName(name)
    \/ \E id \in QueryIds : CallGetFunctionTotalTime(id)
    \/ \E name \in NameSet : CallGetFunctionTotalTimeByName(name)
    \/ \E id \in QueryIds : CallGetFunctionAverageTime(id)
    \/ \E name \in NameSet : CallGetFunctionAverageTimeByName(name)
    \/ CallGetResultsAsString
    \/ CallPrintResults
    \/ \E b \in BOOLEAN, bufferSize \in 0..(Len(buffer.bytes) + 1) : CallGetResults(b, bufferSize)
    \/ \E d \in {0 - 1, 0, 1} : AllocBuffer(d)

\* Timing threads, CollectAll and the queries of the main thread.
SpecQuery == InitQuery /\ [][NextQuery]_vars

\* The registry as the queries see it: empty while none has been created.
RegistryView == IF Registry = 0 THEN NewFunctionRegistry ELSE reg[Registry]

\* A step in which a query returns a value to its caller.
QueryStep == out' # out

\* C12: a query never flushes: it leaves every thread's local deltas, every
\* global counter, the name table and the live-accumulator list unchanged.
C12_QueriesReadOnly ==
    [][QueryStep =>
         /\ TlsAccum' = TlsAccum
         /\ RegistryView'.Counters = RegistryView.Counters
         /\ RegistryView'.Names = RegistryView.Names
         /\ RegistryView'.NameToId = RegistryView.NameToId
         /\ RegistryView'.Accumulators = RegistryView.Accumulators]_vars

\* A count query has returned 0 while the call it asks about is still a
\* pending local delta of the timing thread.
C12_Witness ==
    /\ out.op = "GetFunctionCallCount" /\ out.arg = 0 /\ out.val = 0
    /\ GetFunctionCount(reg[Registry]) >= 1
    /\ TlsAccum[1].state = "live"
    /\ TlsAccum[1].Counters[1] = [Elapsed |-> MaxDur, Calls |-> 1]

\* C13: completing a scoped timer of id i on thread t adds 1 call and the
\* measured duration to t's local slot i and changes nothing else: no other
\* slot, no other accumulator, no global counter.
C13_RecordIsLocal ==
    [][\A t \in Threads : calls'[t] # calls[t] =>
          LET i == timers[t][Len(timers[t])].Id
              C == TlsAccum[t].Counters
              D == TlsAccum'[t].Counters
          IN /\ Len(D) = Len(C)
             /\ D[i + 1].Calls = C[i + 1].Calls + 1
             /\ (D[i + 1].Elapsed - C[i + 1].Elapsed) \in Durations
             /\ \A k \in 1..Len(C) : k # i + 1 => D[k] = C[k]
             /\ \A o \in Threads \ {t} : TlsAccum'[o] = TlsAccum[o]
             /\ reg' = reg]_vars

\* A timer of id 1 has completed on a thread: its delta is in slot 1 alone and
\* no global counter has moved.
C13_Witness ==
    /\ \E t \in Threads :
          /\ Len(TlsAccum[t].Counters) = 2
          /\ TlsAccum[t].Counters[1] = NewLocalCounters
          /\ TlsAccum[t].Counters[2] = [Elapsed |-> MaxDur, Calls |-> 1]
    /\ AllCountersZero
    /\ mpc = "idle"

\* The ids that are not valid in the registry the queries see.
InvalidId(id) == id < 0 \/ id >= GetFunctionCount(RegistryView)
\* Name was never registered.
Unregistered(name) == RegistryView.NameToId[name] = 0 - 1

\* C14: a lookup that fails returns its sentinel: for an id outside
\* [0, functionCount) the empty name, count 0, time 0.0 and average 0.0; for a
\* name never registered id -1, count 0, time 0.0 and average 0.0; and the call
\* registers nothing.
C14_Sentinels ==
    [][QueryStep =>
         LET o == out' IN
         /\ (o.op = "GetFunctionName" /\ InvalidId(o.arg)) => o.val = <<>>
         /\ (o.op = "GetFunctionCallCount" /\ InvalidId(o.arg)) => o.val = 0
         /\ (o.op = "GetFunctionTotalTime" /\ InvalidId(o.arg)) => o.val = 0
         /\ (o.op = "GetFunctionAverageTime" /\ InvalidId(o.arg)) => o.val = Zero
         /\ (o.op = "GetFunctionId" /\ Unregistered(o.arg)) => o.val = 0 - 1
         /\ (o.op = "GetFunctionCallCountByName" /\ Unregistered(o.arg)) => o.val = 0
         /\ (o.op = "GetFunctionTotalTimeByName" /\ Unregistered(o.arg)) => o.val = 0
         /\ (o.op = "GetFunctionAverageTimeByName" /\ Unregistered(o.arg)) => o.val = Zero
         /\ RegistryView'.Names = RegistryView.Names
         /\ RegistryView'.NameToId = RegistryView.NameToId
         /\ GetFunctionCount(RegistryView') = GetFunctionCount(RegistryView)
         /\ RegistryView'.Counters = RegistryView.Counters]_vars

\* The count of a name never registered was asked for while another name
\* holds id 0 with a flushed call: the answer is 0.
C14_Witness ==
    /\ out.op = "GetFunctionCallCountByName" /\ out.val = 0
    /\ Unregistered(out.arg)
    /\ GetFunctionCount(RegistryView) = 1
    /\ GetFunctionCallCount(0) = 1

ExactSizeCall ==
    /\ QueryStep
    /\ out.op = "GetResults" /\ out.val = Len(GetResultsAsString') + 1
    /\ out'.op = "GetResults" /\ out'.arg.buffer
    /\ out'.arg.bufferSize = out.val

TimerReady(t, u, n) ==
    /\ ~crashed
    /\ siteId[u][n] # -1
    /\ \/ pc[t] = "ctor" /\ at[t] = [unit |-> u, name |-> n, inst |-> 0]
       \/ /\ pc[t] = "run"
          /\ initAlive[u] = "yes"
          /\ Len(timers[t]) < MaxNest
          /\ calls[t] + Len(timers[t]) < MaxCalls
    /\ TlsAccum[t].state = "none" => InstanceOK

\* C17: once the call site's name is registered, constructing a scoped timer
\* acquires no lock, on every thread and for a thread's first timed call too:
\* a thread that is about to construct a timer can always do so at once, it
\* never waits on a lock held by a concurrent CollectAll.
C17_HotPathLockFree ==
    \A t \in Threads, u \in Units, n \in NameSet :
        TimerReady(t, u, n) => ENABLED ScopedTimerCtor(t, u, n)

\* ---------------------------------------------------------------------------
\* The delta of id pending in the accumulator of thread t: its slot if the
\* accumulator is alive and its vector reaches the id, nothing otherwise.
PendingSlot(t, id) ==
    IF TlsAccum[t].state = "live" /\ id + 1 <= Len(TlsAccum[t].Counters)
    THEN TlsAccum[t].Counters[id + 1]
    ELSE NewLocalCounters

\* The pending deltas of id summed over the accumulators of threads 1..t.
RECURSIVE PendingCallsUpTo(_, _)
PendingCallsUpTo(t, id) ==
    IF t = 0 THEN 0 ELSE PendingSlot(t, id).Calls + PendingCallsUpTo(t - 1, id)
RECURSIVE PendingElapsedUpTo(_, _)
PendingElapsedUpTo(t, id) ==
    IF t = 0 THEN 0 ELSE PendingSlot(t, id).Elapsed + PendingElapsedUpTo(t - 1, id)
PendingCalls(id) == PendingCallsUpTo(NumThreads, id)
PendingElapsed(id) == PendingElapsedUpTo(NumThreads, id)

\* history: the nanoseconds measured under name n; every completed timer
\* measures one of Durations, which holds MaxDur only.
MadeElapsed(n) == Made(n) * MaxDur

\* No Flush() call is between its entry and its return.
NoFlushInProgress == \A f \in Flushers : FlushRunning(f) => FlushReturns(f)

\* C18: in every reachable state in which no flush is in progress (no reset
\* occurs in this specification), for each registered name the global call
\* count plus the pending local call counts of all live accumulators equals
\* the number of scoped timers completed under the name, and likewise for the
\* elapsed nanoseconds, after any sequence of record, flush, CollectAll, thread
\* start and thread exit.
C18_Conservation ==
    (~crashed /\ NoFlushInProgress) =>
        \A n \in NameSet :
            LET id == GetFunctionId(n) IN
            id # 0 - 1 =>
                /\ reg[Registry].Counters[id + 1].CallCount + PendingCalls(id) = Made(n)
                /\ reg[Registry].Counters[id + 1].TotalNanoseconds + PendingElapsed(id)
                       = MadeElapsed(n)

\* ---------------------------------------------------------------------------
\* The accumulator of thread t is in the live-accumulator list of the registry.
Listed(t) ==
    \E k \in 1..Len(RegistryView.Accumulators) : RegistryView.Accumulators[k] = t

\* C19: while the registry is live, its accumulator list holds exactly the
\* accumulators that were constructed and not yet deregistered by their
\* destructor, each once: an accumulator is listed from its construction
\* until after its final flush, an accumulator whose destruction has completed
\* is not listed, and CollectAll never flushes a dead accumulator.
C19_ListIsLiveSet ==
    (~crashed /\ RegistryView.state = "live") =>
        /\ \A t \in Threads : Listed(t) <=> TlsAccum[t].state = "live"
        /\ \A j, k \in 1..Len(RegistryView.Accumulators) :
               RegistryView.Accumulators[j] = RegistryView.Accumulators[k] => j = k
        /\ \A t \in Threads : pc[t] \in {"dtor_flush", "dtor_erase"} => Listed(t)
        /\ \A t \in Threads : pc[t] = "exited" => ~Listed(t)
        /\ (mpc = "collect" /\ flush[Main].phase # "idle") =>
               TlsAccum[flush[Main].acc].state = "live"

\* CollectAll is flushing the accumulator of a live thread after another
\* thread's accumulator was constructed, flushed and deregistered.
C19_Witness ==
    /\ mpc = "collect" /\ FlushRunning(Main)
    /\ \E t \in Threads : TlsAccum[t].state = "gone" /\ pc[t] = "exited" /\ ~Listed(t)
    /\ \E t \in Threads : TlsAccum[t].state = "live" /\ Listed(t) /\ flush[Main].acc = t

\* ---------------------------------------------------------------------------
\* Threads that register, time and exit while the registry is live; the main
\* thread never calls CollectAll.
NextExit ==
    \/ \E t \in Threads, u \in Units, n \in NameSet : RegisterSite(t, u, n)
    \/ \E t \in Threads, u \in Units, n \in NameSet : ScopedTimerCtor(t, u, n)
    \/ \E t \in Threads, d \in Durations : ScopedTimerDtor(t, d)
    \/ \E t \in Threads : FlushStep(t)
    \/ \E t \in Threads : ThreadExit(t)
    \/ \E t \in Threads : DtorCheck(t)
    \/ \E t \in Threads : DtorErase(t)

SpecExit == Init /\ [][NextExit]_vars

\* Every timer completed so far was completed by a thread that has exited.
OnlyExitedTimed == \A t \in Threads : calls[t] > 0 => pc[t] = "exited"

\* C20: when a thread that has completed scoped timers exits while the
\* registry is live and no CollectAll is ever called, its accumulator's
\* destructor first publishes all pending deltas (at the erase every slot is
\* zero and the accumulator is still listed) and then removes the accumulator
\* from the list; after the exit the global counters include all of the
\* thread's calls and nanoseconds.
C20_ExitPublishes ==
    /\ mpc = "idle" /\ ~crashed
    /\ \A t \in Threads :
           /\ pc[t] = "dtor_erase" =>
                  /\ Listed(t)
                  /\ \A i \in 1..Len(TlsAccum[t].Counters) :
                         TlsAccum[t].Counters[i] = NewLocalCounters
           /\ pc[t] = "exited" => ~Listed(t) /\ TlsAccum[t].state # "live"
    /\ OnlyExitedTimed =>
           \A n \in NameSet :
               GetFunctionId(n) # 0 - 1 =>
                   /\ GetFunctionCallCount(GetFunctionId(n)) = Made(n)
                   /\ GetFunctionTotalTime(GetFunctionId(n)) = MadeElapsed(n)

\* Both threads completed a timer under the same name and exited: their
\* accumulators are gone and the name's global counter holds both calls.
C20_Witness ==
    /\ \A t \in Threads :
           pc[t] = "exited" /\ calls[t] = 1 /\ TlsAccum[t].state = "gone" /\ ~Listed(t)
    /\ \E n \in NameSet :
           /\ Made(n) = NumThreads
           /\ GetFunctionCallCount(GetFunctionId(n)) = NumThreads
           /\ GetFunctionTotalTime(GetFunctionId(n)) = NumThreads * MaxDur

\* ---------------------------------------------------------------------------
\* The step is one step of the loop of the Flush() call f.
FlushStepOf(f) == FlushRunning(f) /\ ~FlushReturns(f) /\ flush'[f] # flush[f]

\* Every slot of the accumulator of thread a is zero.
SlotsZero(a) ==
    \A k \in 1..Len(TlsAccum[a].Counters) : TlsAccum[a].Counters[k] = NewLocalCounters

\* Nothing was recorded into the accumulator while the Flush() call f ran: the
\* destructor's flush runs in the owning thread itself, and CollectAll started
\* after all timed work with nothing timed since.
NoRecordingDuring(f) == f \in Threads \/ (mpc = "collect" /\ collectQuiesced)

\* C21: a flush with no concurrent recording adds to each global counter
\* exactly the elapsed and calls values of the matching local slot (one loop
\* iteration adds the slot's Elapsed, then its Calls, then zeroes the slot, and
\* changes nothing else), visits every slot (none is skipped: when the flush
\* returns its index has passed the last slot and every slot is zero), and a
\* flush of an accumulator whose slots are all zero changes no global counter.
C21_FlushExact ==
    [][\A f \in Flushers :
         /\ FlushStepOf(f) =>
              LET F == flush[f]
                  slot == TlsAccum[F.acc].Counters[F.i + 1]
              IN /\ (F.phase = "check" /\ FlushSlotNonEmpty(slot)) =>
                        /\ reg' = [reg EXCEPT ![F.r].Counters[F.i + 1].TotalNanoseconds =
                                                  @ + slot.Elapsed]
                        /\ TlsAccum' = TlsAccum
                 /\ (F.phase = "check" /\ ~FlushSlotNonEmpty(slot)) =>
                        (reg' = reg /\ TlsAccum' = TlsAccum /\ flush'[f].i = F.i + 1)
                 /\ F.phase = "calls" =>
                        /\ reg' = [reg EXCEPT ![F.r].Counters[F.i + 1].CallCount =
                                                  @ + slot.Calls]
                        /\ TlsAccum' = TlsAccum
                 /\ F.phase = "zero" =>
                        /\ TlsAccum' = [TlsAccum EXCEPT
                                          ![F.acc].Counters[F.i + 1] = NewLocalCounters]
                        /\ reg' = reg /\ flush'[f].i = F.i + 1
                 /\ SlotsZero(F.acc) => reg' = reg
         /\ (FlushReturns(f) /\ NoRecordingDuring(f))' =>
              /\ flush'[f].i >= Len(TlsAccum'[flush'[f].acc].Counters)
              /\ SlotsZero(flush[f].acc)']_vars

\* The destructor's flush of an accumulator that CollectAll had flushed just
\* before has returned: the one completed timer is counted once.
C21_Witness ==
    /\ mpc = "idle" /\ collectQuiesced
    /\ \E t \in Threads :
           /\ pc[t] = "dtor_flush" /\ FlushReturns(t) /\ calls[t] = 1
           /\ Len(TlsAccum[t].Counters) >= 1 /\ SlotsZero(t)
           /\ \A s \in Threads \ {t} : calls[s] = 0 /\ pc[s] = "run"
           /\ \E n \in NameSet :
                  Made(n) = 1 /\ GetFunctionCallCount(GetFunctionId(n)) = 1
                  /\ GetFunctionTotalTime(GetFunctionId(n)) = MaxDur

\* ---------------------------------------------------------------------------
\* The calls pending in the first k slots of the accumulator of thread t.
RECURSIVE LocalCallsUpTo(_, _)
LocalCallsUpTo(t, k) ==
    IF k = 0 THEN 0 ELSE TlsAccum[t].Counters[k].Calls + LocalCallsUpTo(t, k - 1)

\* The orders in which the accumulators of all threads can stand in the list:
\* the order in which the threads made their first timed call.
ListOrders == {p \in [1..NumThreads -> Threads] : \A i, j \in 1..NumThreads : p[i] = p[j] => i = j}

\* After the timed work: every name is registered (name n has id n - 1), every
\* thread has its accumulator in the list, in any order, and holds up to
\* MaxPending unpublished calls of MaxDur nanoseconds each per id; the call
\* count published so far is base for every id.
InitPending(base) ==
    /\ linkage = "shared"
    /\ initAlive = [u \in Units |-> "yes"]
    /\ PerformanceCountersInitializeCount = [c \in Units |-> IF c = 1 THEN NumUnits ELSE 0]
    /\ PerformanceCountersInstance = 1
    /\ crashed = FALSE
    /\ Registry = 1
    /\ \E order \in ListOrders :
           reg = [r \in Regs |->
                    IF r = 1
                    THEN [NewFunctionRegistry EXCEPT
                            !.NameToId = [n \in NameSet |-> n - 1],
                            !.Names = [k \in 1..NumNames |-> k],
                            !.Counters = [k \in 1..NumNames |->
                                            [NewFunctionCounters EXCEPT !.CallCount = base]],
                            !.Count = NumNames,
                            !.Accumulators = order]
                    ELSE UnbornRegistry]
    /\ siteId = [u \in Units |-> [n \in NameSet |-> n - 1]]
    /\ \E c \in [Threads -> [NameSet -> 0..MaxPending]] :
           TlsAccum = [t \in Threads |->
                         [state |-> "live",
                          Counters |-> [k \in 1..NumNames |->
                                          [Elapsed |-> c[t][k] * MaxDur, Calls |-> c[t][k]]]]]
    /\ pc = [t \in Threads |-> "run"]
    /\ at = [t \in Threads |-> NoSite]
    /\ regOrder = [k \in 1..NumNames |-> k]
    /\ timers = [t \in Threads |-> <<>>]
    /\ flush = [f \in Flushers |-> NoFlush]
    /\ mpc = "idle"
    /\ ck = [r |-> 0, k |-> 0]
    /\ rs = NoReset
    /\ calls = [t \in Threads |-> LocalCallsUpTo(t, NumNames)]
    /\ unitMade = [u \in Units |-> [n \in NameSet |->
                                      IF u = 1 THEN PendingCalls(n - 1) ELSE 0]]
    /\ collectQuiesced = FALSE
    /\ resetClean = TRUE
    /\ out = NoResult
    /\ buffer = NullBuffer

\* Nothing has been published yet.
InitCollect == InitPending(0)

\* The main thread calls CollectAll, the threads exit; no more timing.
NextCollect ==
    \/ \E f \in Flushers : FlushStep(f)
    \/ \E t \in Threads : ThreadExit(t)
    \/ \E t \in Threads : DtorCheck(t)
    \/ \E t \in Threads : DtorErase(t)
    \/ CollectAllBegin
    \/ CollectFlush
    \/ CollectAllEnd

SpecCollect == InitCollect /\ [][NextCollect]_vars

\* Every name's global counters hold exactly the timers completed under it.
GlobalsAreMade ==
    \A n \in NameSet :
        /\ GetFunctionCallCount(GetFunctionId(n)) = Made(n)
        /\ GetFunctionTotalTime(GetFunctionId(n)) = MadeElapsed(n)

UnlockNothing(R) == R

\* ~lock_guard on Mutex.
Unlock(R) == [R EXCEPT !.Mutex = -1]

\* The function-local static of a call site is being initialised by a thread.
SiteBusy(u, n) ==
    \E s \in Threads : pc[s] \in {"reg_wait", "reg_locked", "reg_names", "reg_map", "reg_counters",
                                    "reg_publish"}
                        /\ at[s].unit = u /\ at[s].name = n

\* ScopedTimerNamed(name) reached for the first time: the initialiser of the
\* static id calls FunctionRegistry::Instance().RegisterFunction(name).
RegisterFunctionCall(t, u, n) ==
    /\ pc[t] = "run"
    /\ siteId[u][n] = -1
    /\ ~SiteBusy(u, n)
    /\ Len(timers[t]) < MaxNest
    /\ calls[t] + Len(timers[t]) < MaxCalls
    /\ initAlive[u] = "yes"
    /\ InstanceOK
    /\ Registry # 0
    /\ pc' = [pc EXCEPT ![t] = "reg_wait"]
    /\ at' = [at EXCEPT ![t] = [unit |-> u, name |-> n, inst |-> 0]]
    /\ UNCHANGED <<lifeVars, callerVars, Registry, reg, siteId, TlsAccum, timers, flush, mpc,
                   ck, rs, calls, unitMade, regOrder, collectQuiesced, resetClean>>

\* RegisterFunction: std::lock_guard<std::mutex> lock(pImpl->Mutex).
RegisterFunctionLock(t) ==
    /\ pc[t] = "reg_wait"
    /\ ~crashed
    /\ reg[Registry].Mutex = -1
    /\ reg' = [reg EXCEPT ![Registry].Mutex = t]
    /\ pc' = [pc EXCEPT ![t] = "reg_locked"]
    /\ UNCHANGED <<lifeVars, callerVars, Registry, siteId, TlsAccum, at, timers, flush, mpc,
                   ck, rs, calls, unitMade, regOrder, collectQuiesced, resetClean>>

\* RegisterFunction under the lock: find or append, return; the lock is
\* released and the call site's static id is set.
RegisterFunctionBody(t) ==
    /\ pc[t] = "reg_locked"
    /\ ~crashed
    /\ LET u == at[t].unit
           n == at[t].name
           R == reg[Registry]
       IN /\ reg' = [reg EXCEPT ![Registry] = Unlock(RegisterFunction(R, n))]
          /\ siteId' = [siteId EXCEPT ![u][n] = RegisterFunctionId(R, n)]
          /\ regOrder' = IF \E k \in 1..Len(regOrder) : regOrder[k] = n
                         THEN regOrder ELSE Append(regOrder, n)
    /\ pc' = [pc EXCEPT ![t] = "ctor"]
    /\ UNCHANGED <<lifeVars, callerVars, Registry, TlsAccum, at, timers, flush, mpc,
                   ck, rs, calls, unitMade, collectQuiesced, resetClean>>

\* The main thread calls GetFunctionId(name), that is FindFunction(name).
FindFunctionCall ==
    /\ mpc = "idle"
    /\ InstanceOK
    /\ Registry # 0
    /\ mpc' = "find_wait"
    /\ UNCHANGED <<lifeVars, callerVars, Registry, reg, siteId, TlsAccum, pc, at, timers, flush,
                   ck, rs, calls, unitMade, regOrder, collectQuiesced, resetClean>>

\* FindFunction: std::lock_guard<std::mutex> lock(pImpl->Mutex).
FindFunctionLock ==
    /\ mpc = "find_wait"
    /\ ~crashed
    /\ reg[Registry].Mutex = -1
    /\ reg' = [reg EXCEPT ![Registry].Mutex = Main]
    /\ mpc' = "find"
    /\ UNCHANGED <<lifeVars, callerVars, Registry, siteId, TlsAccum, pc, at, timers, flush,
                   ck, rs, calls, unitMade, regOrder, collectQuiesced, resetClean>>

\* FindFunction under the lock: the lookup, the return, the release.
FindFunctionReturn(name) ==
    /\ mpc = "find"
    /\ ~crashed
    /\ out' = [op |-> "GetFunctionId", arg |-> name, val |-> FindFunction(reg[Registry], name)]
    /\ reg' = [reg EXCEPT ![Registry] = Unlock(@)]
    /\ mpc' = "idle"
    /\ UNCHANGED <<lifeVars, buffer, Registry, siteId, TlsAccum, pc, at, timers, flush,
                   ck, rs, calls, unitMade, regOrder, collectQuiesced, resetClean>>

\* The main thread calls CollectAll().
CollectAllCall ==
    /\ mpc = "idle"
    /\ InstanceOK
    /\ Registry # 0
    /\ mpc' = "collect_wait"
    /\ UNCHANGED <<lifeVars, callerVars, Registry, reg, siteId, TlsAccum, pc, at, timers, flush,
                   ck, rs, calls, unitMade, regOrder, collectQuiesced, resetClean>>

\* CollectAll(): std::lock_guard<std::mutex> lock(AccumulatorMutex).
CollectAllLock ==
    /\ mpc = "collect_wait"
    /\ ~crashed
    /\ reg[Registry].AccumulatorMutex = -1
    /\ reg' = [reg EXCEPT ![Registry].AccumulatorMutex = Main]
    /\ ck' = [r |-> Registry, k |-> 1]
    /\ mpc' = "collect"
    /\ collectQuiesced' = AllTimedWorkDone
    /\ UNCHANGED <<lifeVars, callerVars, Registry, siteId, TlsAccum, pc, at, timers, flush,
                   calls, unitMade, rs, regOrder, resetClean>>

\* The names the threads time under while the locks are observed.
LockNames == {1}
\* The unit whose call sites thread t executes while the locks are observed.
UnitOf(t) == ((t - 1) % NumUnits) + 1

\* The construction of the timer that follows the registration in thread t.
TimerAtSite(t) ==
    pc[t] = "ctor" /\ \E n \in LockNames : ScopedTimerCtor(t, UnitOf(t), n)

NextLocks ==
    \/ \E t \in Threads, n \in LockNames : RegisterFunctionCall(t, UnitOf(t), n)
    \/ \E t \in Threads : RegisterFunctionLock(t)
    \/ \E t \in Threads : RegisterFunctionBody(t)
    \/ \E t \in Threads, n \in LockNames : ScopedTimerCtor(t, UnitOf(t), n)
    \/ \E t \in Threads, d \in Durations : ScopedTimerDtor(t, d)
    \/ \E f \in Flushers : FlushStep(f)
    \/ \E t \in Threads : ThreadExit(t)
    \/ \E t \in Threads : DtorCheck(t)
    \/ \E t \in Threads : DtorErase(t)
    \/ FindFunctionCall
    \/ FindFunctionLock
    \/ \E n \in LockNames : FindFunctionReturn(n)
    \/ CollectAllCall
    \/ CollectAllLock
    \/ CollectFlush
    \/ CollectAllEnd

\* The next step of the operation thread t is in.
ThreadContinue(t) ==
    \/ RegisterFunctionLock(t) \/ RegisterFunctionBody(t) \/ TimerAtSite(t)
    \/ FlushStep(t) \/ DtorCheck(t) \/ DtorErase(t)

\* The next step of the operation the main thread is in.
MainContinue ==
    \/ FindFunctionLock
    \/ \E n \in LockNames : FindFunctionReturn(n)
    \/ CollectAllLock \/ FlushStep(Main) \/ CollectFlush \/ CollectAllEnd

\* A fair scheduler: a thread inside an operation eventually takes its next
\* step if that step is possible again and again, which covers a thread
\* waiting for a mutex that is released again and again.  Starting an
\* operation is not forced.
FairLocks ==
    /\ \A t \in Threads : SF_vars(ThreadContinue(t))
    /\ SF_vars(MainContinue)

SpecLocks == Init /\ [][NextLocks]_vars /\ FairLocks

\* A step that continues an operation already begun (by a thread or by main).
Continue == MainContinue \/ \E t \in Threads : ThreadContinue(t)

\* Some RegisterFunction, FindFunction, CollectAll, accumulator construction
\* or accumulator destruction has begun and not completed.
Pending ==
    \/ \E t \in Threads : pc[t] \in {"reg_wait", "reg_locked", "ctor", "dtor_flush", "dtor_erase"}
    \/ mpc \in {"find_wait", "find", "collect_wait", "collect"}

\* No thread holds the name-map lock and the accumulator-list lock together.
NeverBothLocks ==
    \A r \in Regs : reg[r].Mutex = -1 \/ reg[r].AccumulatorMutex # reg[r].Mutex

C24_AppendOnly ==
    [][LET R == RegistryView
           S == RegistryView'
       IN /\ GetFunctionCount(S) >= GetFunctionCount(R)
          /\ Len(S.Names) >= Len(R.Names)
          /\ \A id \in 0..(GetFunctionCount(R) - 1) :
                 /\ S.Names[id + 1] = R.Names[id + 1]
                 /\ FindFunction(S, R.Names[id + 1]) = id
          /\ \A n \in NameSet :
                 FindFunction(R, n) # 0 - 1 => FindFunction(S, n) = FindFunction(R, n)]_vars

\* ResetAllCounters has cleared the counters of id 0 after both names were
\* registered and a thread has exited: both ids are still valid.
C24_Witness ==
    /\ mpc = "reset" /\ rs.i >= 1
    /\ GetFunctionCount(RegistryView) = NumNames
    /\ \A id \in 0..(NumNames - 1) : FindFunction(RegistryView, RegistryView.Names[id + 1]) = id
    /\ \E t \in Threads : pc[t] = "exited"

\* ---------------------------------------------------------------------------
\* PerformanceCounters::GetFunctionId(name) for a name given as text:
\* NameToId.find compares the strings; -1 when no key equals the text.
GetFunctionIdOfText(text) ==
    IF \E n \in NameSet : NameText(n) = text /\ FindFunction(reg[Registry], n) # 0 - 1
    THEN FindFunction(reg[Registry],
                      CHOOSE n \in NameSet : NameText(n) = text
                                             /\ FindFunction(reg[Registry], n) # 0 - 1)
    ELSE 0 - 1

\* C25: name and id lookups are inverse to each other: for every registered
\* name n, GetFunctionName(GetFunctionId(n)) is the text of n, and for every
\* id in [0, functionCount), GetFunctionId(GetFunctionName(id)) is id.
C25_Inverse ==
    /\ \A n \in NameSet :
           GetFunctionId(n) # 0 - 1 =>
               /\ GetFunctionName(GetFunctionId(n)) = NameText(n)
               /\ GetFunctionIdOfText(NameText(n)) = GetFunctionId(n)
    /\ \A id \in 0..(GetFunctionCount(reg[Registry]) - 1) :
           GetFunctionIdOfText(GetFunctionName(id)) = id

\* Both names are registered, the second one first: it has id 0.
C25_Witness ==
    /\ GetFunctionCount(reg[Registry]) = NumNames
    /\ GetFunctionId(NumNames) = 0
    /\ GetFunctionName(0) = NameText(NumNames)
    /\ GetFunctionIdOfText(GetFunctionName(NumNames - 1)) = NumNames - 1

\* ---------------------------------------------------------------------------
\* A long run: every function has been called, and its calls published,
\* INT_MAX - 1 times before the pending calls.
CallsBefore == INT_MAX - 1
InitWide == InitPending(CallsBefore)
SpecWide == InitWide /\ [][NextCollect]_vars

\* C26: the reported call count equals the true number of calls for every
\* number of calls up to 2^64 - 1, with no wrap-around or sign change at 2^31:
\* after CallsBefore published calls and a CollectAll of the pending ones, the
\* count GetFunctionCallCount reports is not negative and exceeds CallsBefore
\* by the number of calls that were pending.
C26_NoWrap ==
    (Collected /\ \A t \in Threads : pc[t] = "run") =>
        \A n \in NameSet :
            /\ GetFunctionCallCount(GetFunctionId(n)) >= 0
            /\ GetFunctionCallCount(GetFunctionId(n)) - CallsBefore = Made(n)

\* ---------------------------------------------------------------------------
\* GetFunctionAverageTime(id) read as the code reads: the range test and the
\* load of CallCount first, the load of TotalNanoseconds in a later step (the
\* same two loads, in the same order, as the loop body of GetResultsAsString).
\* An invalid id and a call count of 0 return 0.0 at once.
AverageLoadCalls(id) ==
    /\ mpc = "idle"
    /\ InstanceOK
    /\ Registry # 0
    /\ LET R == reg[Registry] IN
       IF id < 0 \/ id >= GetFunctionCount(R) \/ R.Counters[id + 1].CallCount = 0
       THEN /\ out' = [op |-> "GetFunctionAverageTime", arg |-> id, val |-> Zero]
            /\ mpc' = "idle"
       ELSE /\ out' = [op |-> "calls.load", arg |-> id, val |-> R.Counters[id + 1].CallCount]
            /\ mpc' = "avg"
    /\ UNCHANGED <<lifeVars, buffer, Registry, reg, siteId, TlsAccum, pc, at, timers, flush,
                   ck, rs, calls, unitMade, regOrder, collectQuiesced, resetClean>>

\* GetFunctionAverageTime(id): totalNs = TotalNanoseconds.load(); return
\* static_cast<double>(totalNs) / calls.
AverageLoadTime ==
    /\ mpc = "avg"
    /\ ~crashed
    /\ out' = [op |-> "GetFunctionAverageTime", arg |-> out.arg,
               val |-> Quotient(reg[Registry].Counters[out.arg + 1].TotalNanoseconds, out.val)]
    /\ mpc' = "idle"
    /\ UNCHANGED <<lifeVars, buffer, Registry, reg, siteId, TlsAccum, pc, at, timers, flush,
                   ck, rs, calls, unitMade, regOrder, collectQuiesced, resetClean>>

\* Threads register, time and exit, flushing in their destructors, while the
\* main thread reads averages.
NextRead ==
    \/ NextExit
    \/ \E id \in QueryIds : AverageLoadCalls(id)
    \/ AverageLoadTime

SpecRead == Init /\ [][NextRead]_vars

\* C27 as stated: GetFunctionAverageTime running concurrently with a flush
\* reports a call count and a total time that reflect the same set of flushed
\* deltas: every delta being one call of MaxDur nanoseconds, the time is
\* MaxDur times the count.
C27_SameDeltas ==
    [][(mpc = "avg" /\ mpc' = "idle") =>
         out'.val.num = MaxDur * out'.val.den]_vars

\* C27: the call count and the total time a read reports are each loaded
\* atomically and are each a sum over whole flushed deltas (the count between
\* 1 and the timers completed, the time a multiple of a delta's time between 0
\* and the time measured), and they reflect the same set of deltas when no
\* flush overlaps the read (none is running at the second load and the count
\* is still the one loaded first); a flush that overlaps the read can
\* contribute to one of the two values only.
C27_ReadsWholeSums ==
    [][(mpc = "avg" /\ mpc' = "idle") =>
         LET id == out.arg
             n == reg[Registry].Names[id + 1]
             C == out'.val.den
             T == out'.val.num
         IN /\ C = out.val
            /\ C >= 1 /\ C <= Made(n)
            /\ T >= 0 /\ T <= MadeElapsed(n) /\ T % MaxDur = 0
            /\ (NoFlushInProgress /\ reg[Registry].Counters[id + 1].CallCount = C)
                   => T = MaxDur * C]_vars

\* A read that overlapped a flush: the average of two calls' time over one call.
C27_Witness ==
    /\ mpc = "idle"
    /\ out.op = "GetFunctionAverageTime"
    /\ out.val = Quotient(2 * MaxDur, 1)

\* ---------------------------------------------------------------------------
\* Work is pending in the accumulators and MaxPending calls per id were
\* published earlier.
InitResetPending == InitPending(MaxPending)

\* The main thread resets and collects, in any order and any number of times;
\* the worker threads are idle.
NextResetPending ==
    \/ ResetBegin
    \/ ResetStep
    \/ ResetEnd
    \/ CollectAllBegin
    \/ FlushStep(Main)
    \/ CollectFlush
    \/ CollectAllEnd

SpecResetPending == InitResetPending /\ [][NextResetPending]_vars

\* C28: no step of ResetAllCounters changes any thread's local deltas, so the
\* pending calls and nanoseconds of every id are the same after the reset as
\* before it; whenever the main thread is between operations each id's work
\* made before is either still pending whole or was flushed whole, and then the
\* global counters hold it on top of the earlier published count (no reset
\* since), hold exactly it (reset, then CollectAll), or hold zero (reset last).
C28_ResetKeepsPending ==
    [][/\ rs' # rs =>
            /\ TlsAccum' = TlsAccum
            /\ \A n \in NameSet :
                   /\ PendingCalls(n - 1)' = PendingCalls(n - 1)
                   /\ PendingElapsed(n - 1)' = PendingElapsed(n - 1)
       /\ (mpc = "reset" /\ mpc' = "idle") =>
            \A n \in NameSet :
                /\ GetFunctionCallCount(n - 1)' = 0
                /\ GetFunctionTotalTime(n - 1)' = 0
                /\ PendingCalls(n - 1)' \in {0, Made(n)}
       /\ mpc' = "idle" =>
            \A n \in NameSet :
                \/ /\ PendingCalls(n - 1)' = Made(n)
                   /\ PendingElapsed(n - 1)' = MadeElapsed(n)
                   /\ GetFunctionCallCount(n - 1)' \in {MaxPending, 0}
                   /\ GetFunctionTotalTime(n - 1)' = 0
                \/ /\ PendingCalls(n - 1)' = 0
                   /\ PendingElapsed(n - 1)' = 0
                   /\ <<GetFunctionCallCount(n - 1)', GetFunctionTotalTime(n - 1)'>>
                          \in {<<MaxPending + Made(n), MadeElapsed(n)>>,
                               <<Made(n), MadeElapsed(n)>>,
                               <<0, 0>>}]_vars

\* A reset followed by CollectAll: work that was pending during the reset is
\* all that the global counters of some name hold, and it is not zero.
C28_Witness ==
    /\ mpc = "idle" /\ rs = NoReset
    /\ \E n \in NameSet :
           /\ Made(n) >= 1
           /\ PendingCalls(n - 1) = 0
           /\ GetFunctionCallCount(n - 1) = Made(n)
           /\ GetFunctionTotalTime(n - 1) = MadeElapsed(n)

\* ---------------------------------------------------------------------------
\* RegisterFunction statement by statement, and a reader that takes no lock.

\* RegisterFunction under the lock: NameToId.find(name); a name that is found
\* returns its id (the lock is released, the call site's static id is set).
RegisterFunctionFind(t) ==
    /\ pc[t] = "reg_locked"
    /\ ~crashed
    /\ LET u == at[t].unit
           n == at[t].name
           R == reg[Registry]
       IN IF R.NameToId[n] # -1
          THEN /\ reg' = [reg EXCEPT ![Registry] = Unlock(@)]
               /\ siteId' = [siteId EXCEPT ![u][n] = R.NameToId[n]]
               /\ pc' = [pc EXCEPT ![t] = "ctor"]
          ELSE /\ pc' = [pc EXCEPT ![t] = "reg_names"]
               /\ UNCHANGED <<reg, siteId>>
    /\ UNCHANGED <<lifeVars, callerVars, Registry, TlsAccum, at, timers, flush, mpc,
                   ck, rs, calls, unitMade, regOrder, collectQuiesced, resetClean>>

\* id = Names.size(); Names.emplace_back(name).
RegisterFunctionNames(t) ==
    /\ pc[t] = "reg_names"
    /\ ~crashed
    /\ reg' = [reg EXCEPT ![Registry].Names = Append(@, at[t].name)]
    /\ pc' = [pc EXCEPT ![t] = "reg_map"]
    /\ UNCHANGED <<lifeVars, callerVars, Registry, siteId, TlsAccum, at, timers, flush, mpc,
                   ck, rs, calls, unitMade, regOrder, collectQuiesced, resetClean>>

\* NameToId[name] = id.
RegisterFunctionMap(t) ==
    /\ pc[t] = "reg_map"
    /\ ~crashed
    /\ reg' = [reg EXCEPT ![Registry].NameToId[at[t].name] = Len(reg[Registry].Names) - 1]
    /\ pc' = [pc EXCEPT ![t] = "reg_counters"]
    /\ UNCHANGED <<lifeVars, callerVars, Registry, siteId, TlsAccum, at, timers, flush, mpc,
                   ck, rs, calls, unitMade, regOrder, collectQuiesced, resetClean>>

\* Counters.push_back(std::make_unique<FunctionCounters>()).
RegisterFunctionCounters(t) ==
    /\ pc[t] = "reg_counters"
    /\ ~crashed
    /\ reg' = [reg EXCEPT ![Registry].Counters = Append(@, NewFunctionCounters)]
    /\ pc' = [pc EXCEPT ![t] = "reg_publish"]
    /\ UNCHANGED <<lifeVars, callerVars, Registry, siteId, TlsAccum, at, timers, flush, mpc,
                   ck, rs, calls, unitMade, regOrder, collectQuiesced, resetClean>>

\* Count.store(id + 1, release); return id: the lock is released and the call
\* site's static id is set.
RegisterFunctionPublish(t) ==
    /\ pc[t] = "reg_publish"
    /\ ~crashed
    /\ LET u == at[t].unit
           n == at[t].name
           id == reg[Registry].NameToId[n]
       IN /\ reg' = [reg EXCEPT ![Registry] = Unlock([@ EXCEPT !.Count = id + 1])]
          /\ siteId' = [siteId EXCEPT ![u][n] = id]
          /\ regOrder' = Append(regOrder, n)
    /\ pc' = [pc EXCEPT ![t] = "ctor"]
    /\ UNCHANGED <<lifeVars, callerVars, Registry, TlsAccum, at, timers, flush, mpc,
                   ck, rs, calls, unitMade, collectQuiesced, resetClean>>

\* The queries that index a table of the registry without a lock.
TableReads == {"GetFunctionName", "GetFunctionCallCount"}

\* The table the query op indexes: Names in GetName, Counters in GetCounter.
TableOf(R, op) == IF op = "GetFunctionName" THEN R.Names ELSE R.Counters

\* GetFunctionName(id) / GetFunctionCallCount(id): reg = Instance(); the range
\* check loads Count; an id out of range returns the sentinel.
ReaderLoadCount(op, id) ==
    /\ mpc = "idle"
    /\ InstanceOK
    /\ Registry # 0
    /\ IF id < 0 \/ id >= GetFunctionCount(reg[Registry])
       THEN /\ out' = [op |-> op, arg |-> id,
                       val |-> IF op = "GetFunctionName" THEN <<>> ELSE 0]
            /\ mpc' = "idle"
       ELSE /\ out' = [op |-> "Count.load", arg |-> id, val |-> op]
            /\ mpc' = "rd_data"
    /\ UNCHANGED <<lifeVars, buffer, Registry, reg, siteId, TlsAccum, pc, at, timers, flush,
                   ck, rs, calls, unitMade, regOrder, collectQuiesced, resetClean>>

\* GetName(id) / GetCounter(id): operator[] loads the vector's pointer to its
\* elements.  The buffer is identified by the number of elements pushed so far.
ReaderLoadData ==
    /\ mpc = "rd_data"
    /\ ~crashed
    /\ out' = [op |-> out.val, arg |-> out.arg,
               val |-> [data |-> Len(TableOf(reg[Registry], out.val))]]
    /\ mpc' = "rd_elem"
    /\ UNCHANGED <<lifeVars, buffer, Registry, reg, siteId, TlsAccum, pc, at, timers, flush,
                   ck, rs, calls, unitMade, regOrder, collectQuiesced, resetClean>>

\* The element is read through the loaded pointer.  A push_back since the
\* load may have moved the elements to a new buffer and freed the old one
\* (whether it did depends on the vector's capacity): the read is then a read
\* of freed memory.
ReaderLoadElement ==
    /\ mpc = "rd_elem"
    /\ ~crashed
    /\ LET R == reg[Registry]
           op == out.op
           id == out.arg
       IN \E moved \in BOOLEAN :
            /\ moved => Len(TableOf(R, op)) > out.val.data
            /\ out' = IF moved
                      THEN [op |-> "read of freed memory", arg |-> id, val |-> op]
                      ELSE [op |-> op, arg |-> id,
                            val |-> IF op = "GetFunctionName"
                                    THEN NameText(R.Names[id + 1])
                                    ELSE R.Counters[id + 1].CallCount]
    /\ mpc' = "idle"
    /\ UNCHANGED <<lifeVars, buffer, Registry, reg, siteId, TlsAccum, pc, at, timers, flush,
                   ck, rs, calls, unitMade, regOrder, collectQuiesced, resetClean>>

\* Threads register names and time one call each, the main thread reads names
\* and call counts.
NextPublish ==
    \/ \E t \in Threads, n \in NameSet : RegisterFunctionCall(t, UnitOf(t), n)
    \/ \E t \in Threads : RegisterFunctionLock(t)
    \/ \E t \in Threads : RegisterFunctionFind(t)
    \/ \E t \in Threads : RegisterFunctionNames(t)
    \/ \E t \in Threads : RegisterFunctionMap(t)
    \/ \E t \in Threads : RegisterFunctionCounters(t)
    \/ \E t \in Threads : RegisterFunctionPublish(t)
    \/ \E t \in Threads, n \in NameSet : ScopedTimerCtor(t, UnitOf(t), n)
    \/ \E t \in Threads, d \in Durations : ScopedTimerDtor(t, d)
    \/ \E op \in TableReads, id \in QueryIds : ReaderLoadCount(op, id)
    \/ ReaderLoadData
    \/ ReaderLoadElement

SpecPublish == Init /\ [][NextPublish]_vars

\* A thread is inside the critical section of RegisterFunction.
InRegistration ==
    \E t \in Threads :
        pc[t] \in {"reg_locked", "reg_names", "reg_map", "reg_counters", "reg_publish"}

\* The published count never exceeds the name table or the counter array, and
\* outside a registration the two tables, the map and the count agree.
PublishedPrefix ==
    LET R == RegistryView IN
    /\ GetFunctionCount(R) <= Len(R.Names)
    /\ GetFunctionCount(R) <= Len(R.Counters)
    /\ ~InRegistration =>
           /\ Len(R.Names) = Len(R.Counters)
           /\ Len(R.Names) = Cardinality({n \in NameSet : R.NameToId[n] # -1})
           /\ Len(R.Names) = GetFunctionCount(R)

\* C29: in every reachable state, states inside a concurrent RegisterFunction
\* included, the published count is at most the length of the name table and
\* of the counter array, which equal each other and the size of the name map
\* outside the registration critical section; and a reader without a lock that
\* observed count = n finds the name and a counter of zero or more calls for
\* every id below n.
C29_ReaderFindsPublished ==
    /\ PublishedPrefix
    /\ out.op # "read of freed memory"
    /\ (out.op = "GetFunctionName" /\ mpc = "idle" /\ out.val # <<>>) =>
           out.val = NameText(RegistryView.Names[out.arg + 1])
    /\ (out.op = "GetFunctionCallCount" /\ mpc = "idle") => out.val >= 0

\* ---------------------------------------------------------------------------
\* ScopedTimer() / ScopedTimerNamed(name) reached by thread t at the call site
\* of unit u under name n, possibly inside other timed scopes (up to MaxDepth
\* deep, MaxTimers timers per thread): the static id is initialised by
\* RegisterFunction on the first pass; the construction of the
\* ScopedTimerHelper follows in the same thread.
ScopedTimerMacro(t, u, n) ==
    /\ pc[t] = "run"
    /\ Len(timers[t]) < MaxDepth
    /\ calls[t] + Len(timers[t]) < MaxTimers
    /\ initAlive[u] = "yes"
    /\ InstanceOK
    /\ Registry # 0
    /\ pc' = [pc EXCEPT ![t] = "ctor"]
    /\ at' = [at EXCEPT ![t] = [unit |-> u, name |-> n, inst |-> 0]]
    /\ IF siteId[u][n] = -1
       THEN LET r == GetRegistry
                R == RegAfterGetRegistry[r]
            IN /\ reg' = [RegAfterGetRegistry EXCEPT ![r] = RegisterFunction(R, n)]
               /\ siteId' = [siteId EXCEPT ![u][n] = RegisterFunctionId(R, n)]
               /\ Registry' = r
               /\ regOrder' = IF \E k \in 1..Len(regOrder) : regOrder[k] = n
                              THEN regOrder ELSE Append(regOrder, n)
       ELSE UNCHANGED <<Registry, reg, siteId, regOrder>>
    /\ UNCHANGED <<lifeVars, callerVars, TlsAccum, timers, flush, mpc, ck, rs, calls, unitMade,
                   collectQuiesced, resetClean>>

\* The threads that nest timed scopes.
NestingThreads == {1}

\* A thread times scopes inside scopes at the call sites of its unit, the
\* others time one call each at theirs; threads exit and the main thread
\* collects.
NextNested ==
    \/ \E t \in NestingThreads, n \in NameSet : ScopedTimerMacro(t, UnitOf(t), n)
    \/ \E t \in Threads \ NestingThreads, n \in NameSet : RegisterSite(t, UnitOf(t), n)
    \/ \E t \in Threads, n \in NameSet : ScopedTimerCtor(t, UnitOf(t), n)
    \/ \E t \in Threads, d \in Durations : ScopedTimerDtor(t, d)
    \/ \E f \in Flushers : FlushStep(f)
    \/ \E t \in Threads : ThreadExit(t)
    \/ \E t \in Threads : DtorCheck(t)
    \/ \E t \in Threads : DtorErase(t)
    \/ CollectAllBegin
    \/ CollectFlush
    \/ CollectAllEnd

SpecNested == Init /\ [][NextNested]_vars

\* The accumulator of thread t is alive before and after the step.
StaysLive(t) == TlsAccum[t].state = "live" /\ TlsAccum'[t].state = "live"

\* C30: for every scoped timer created through the macros, nested timers with
\* different ids on one thread included, the thread's local delta sequence is
\* longer than the timer's id while the timer lives and when it completes; the
\* sequence never shrinks and new slots start at zero; its length never
\* exceeds the registry's published count, so the count a flush loads is at
\* least the length of the sequence it flushes, a flush passes a slot only
\* when the slot is zero, and a flush with no concurrent recording returns
\* only after the last slot.
C30_SlotExists ==
    [][\A t \in Threads :
         /\ \A k \in 1..Len(timers[t]) :
                TlsAccum[t].state = "live" /\ Len(TlsAccum[t].Counters) > timers[t][k].Id
         /\ Len(timers'[t]) < Len(timers[t]) =>
                LET top == timers[t][Len(timers[t])]
                IN /\ StaysLive(t)
                   /\ Len(TlsAccum'[t].Counters) > top.Id
                   /\ TlsAccum'[t].Counters[top.Id + 1].Calls
                          = TlsAccum[t].Counters[top.Id + 1].Calls + 1
         /\ StaysLive(t) =>
                /\ Len(TlsAccum'[t].Counters) >= Len(TlsAccum[t].Counters)
                /\ \A k \in (Len(TlsAccum[t].Counters) + 1)..Len(TlsAccum'[t].Counters) :
                       TlsAccum'[t].Counters[k] = NewLocalCounters
         /\ Len(TlsAccum'[t].Counters) <= GetFunctionCount(RegistryView')
         /\ \A f \in Flushers :
                /\ (~FlushRunning(f) /\ FlushRunning(f)') =>
                       flush'[f].count >= Len(TlsAccum'[flush'[f].acc].Counters)
                /\ (FlushStepOf(f) /\ flush'[f].i > flush[f].i) =>
                       TlsAccum'[flush[f].acc].Counters[flush[f].i + 1] = NewLocalCounters
                /\ (FlushReturns(f) /\ NoRecordingDuring(f))' =>
                       flush'[f].i >= Len(TlsAccum'[flush'[f].acc].Counters)]_vars

\* A thread is inside two nested timed scopes, the outer one with the larger
\* id, after the other thread timed a call, exited and flushed it.
C30_Witness ==
    \E t \in NestingThreads :
        /\ Len(timers[t]) = 2
        /\ timers[t][1].Id = 1 /\ timers[t][2].Id = 0
        /\ Len(TlsAccum[t].Counters) = 2
        /\ \E s \in Threads \ {t} : pc[s] = "exited" /\ calls[s] = 1

====
